---- MODULE Spec2Model ----
(***************************************************************************)
(* Model of the cronus scheduler daemon: the control loop of              *)
(* src/src/scheduler.rs (parser task, handler task, try_join! in run),    *)
(* the wire codec of src/src/command.rs and src/src/job.rs, the req/rep   *)
(* endpoint of src/src/nng_socket.rs and the client of command.rs.        *)
(***************************************************************************)
EXTENDS Integers, Sequences, FiniteSets, Bags, TLC

(***************************************************************************)
(* Bounds of the model.                                                    *)
(***************************************************************************)
\* number of CommandClient instances
NumClients == 2
\* total number of frames the clients send over the lifetime of the service
MaxRequests == 3
\* number of identifiers the engine hands out
MaxIds == 2
\* number of times the engine fires a job over the lifetime of the service
MaxFirings == 1

(***************************************************************************)
(* Program constants.                                                      *)
(***************************************************************************)
\* mpsc::channel(1024)
ChannelCapacity == 1024

Clients == 1..NumClients
NoClient == 0

(***************************************************************************)
(* Option<T>: None is the empty sequence, Some(v) the one-element one.     *)
(***************************************************************************)
None == <<>>
Some(v) == <<v>>

(***************************************************************************)
(* Result<T, E>.                                                           *)
(***************************************************************************)
Ok(v) == [ok |-> TRUE, val |-> v]
Err(e) == [ok |-> FALSE, err |-> e]

(***************************************************************************)
(* job.rs: enum Job.                                                       *)
(***************************************************************************)
JobCommand(path, args) == [tag |-> "Command", path |-> path, args |-> args]
JobRhaiScript(script) == [tag |-> "RhaiScript", script |-> script]
JobRhaiScriptFile(file) == [tag |-> "RhaiScriptFile", file |-> file]

\* job.rs: struct JobInfo
JobInfo(id, cron, last_run, next_run, job) ==
    [id |-> id, cron |-> cron, last_run |-> last_run, next_run |-> next_run, job |-> job]

(***************************************************************************)
(* command.rs: enum Command and its constructors.                          *)
(***************************************************************************)
new_add_job(cron, job) == [tag |-> "AddJob", cron |-> cron, job |-> job]
new_list_jobs == [tag |-> "ListJobs"]
new_delete_job(id) == [tag |-> "DeleteJob", id |-> id]
new_stop_service == [tag |-> "StopService"]
new_ping_service == [tag |-> "PingService"]

\* command.rs: enum CommandResponse
JobAdded(id) == [tag |-> "JobAdded", id |-> id]
JobList(list) == [tag |-> "JobList", list |-> list]
JobDeleted == [tag |-> "JobDeleted"]
ServiceRunning == [tag |-> "ServiceRunning"]
ServiceStopped == [tag |-> "ServiceStopped"]

\* responses of the reply vocabulary that are no variant of CommandResponse
\* in command.rs; main.rs builds the first
ServiceNotRunning == [tag |-> "ServiceNotRunning"]
Nothing == [tag |-> "Nothing"]

(***************************************************************************)
(* Wire codec (serde_json).  A frame is the sequence of the JSON tokens   *)
(* of the text serde_json produces: punctuation, string literals,         *)
(* numbers and null.                                                       *)
(***************************************************************************)
P(s) == [k |-> "p", v |-> s]
S(s) == [k |-> "s", v |-> s]
N(n) == [k |-> "n", v |-> n]
Null == [k |-> "null", v |-> ""]
Eof == [k |-> "eof", v |-> ""]

\* Vec<String> as a JSON array
RECURSIVE EncStrItems(_)
EncStrItems(args) ==
    IF args = <<>> THEN <<>>
    ELSE IF Len(args) = 1 THEN <<S(args[1])>>
    ELSE <<S(args[1]), P(",")>> \o EncStrItems(Tail(args))

\* #[derive(Serialize)] for Job: externally tagged, tuple and newtype variants
EncJob(job) ==
    IF job.tag = "Command"
    THEN <<P("{"), S("Command"), P(":"), P("["), S(job.path), P(","), P("[")>>
         \o EncStrItems(job.args) \o <<P("]"), P("]"), P("}")>>
    ELSE IF job.tag = "RhaiScript"
    THEN <<P("{"), S("RhaiScript"), P(":"), S(job.script), P("}")>>
    ELSE <<P("{"), S("RhaiScriptFile"), P(":"), S(job.file), P("}")>>

\* Option<u64>
EncOptU64(o) == IF o = None THEN <<Null>> ELSE <<N(o[1])>>

\* #[derive(Serialize)] for JobInfo: a map in field order
EncJobInfo(ji) ==
    <<P("{"), S("id"), P(":"), S(ji.id), P(","), S("cron"), P(":"), S(ji.cron), P(","),
      S("last_run"), P(":")>> \o EncOptU64(ji.last_run)
    \o <<P(","), S("next_run"), P(":")>> \o EncOptU64(ji.next_run)
    \o <<P(","), S("job"), P(":")>> \o EncJob(ji.job) \o <<P("}")>>

RECURSIVE EncJobInfoItems(_)
EncJobInfoItems(list) ==
    IF list = <<>> THEN <<>>
    ELSE IF Len(list) = 1 THEN EncJobInfo(list[1])
    ELSE EncJobInfo(list[1]) \o <<P(",")>> \o EncJobInfoItems(Tail(list))

\* Command::to_bytes
CommandToBytes(cmd) ==
    IF cmd.tag = "AddJob"
    THEN <<P("{"), S("AddJob"), P(":"), P("{"), S("cron"), P(":"), S(cmd.cron), P(","),
           S("job"), P(":")>> \o EncJob(cmd.job) \o <<P("}"), P("}")>>
    ELSE IF cmd.tag = "DeleteJob"
    THEN <<P("{"), S("DeleteJob"), P(":"), P("{"), S("id"), P(":"), S(cmd.id), P("}"), P("}")>>
    ELSE <<S(cmd.tag)>>

\* CommandResponse::to_bytes
ResponseToBytes(res) ==
    IF res.tag = "JobAdded"
    THEN <<P("{"), S("JobAdded"), P(":"), S(res.id), P("}")>>
    ELSE IF res.tag = "JobList"
    THEN <<P("{"), S("JobList"), P(":"), P("[")>> \o EncJobInfoItems(res.list)
         \o <<P("]"), P("}")>>
    ELSE <<S(res.tag)>>

(***************************************************************************)
(* Decoding: a recursive descent over the tokens.  A parse step returns   *)
(* [ok, val, next], next being the index of the first token not consumed. *)
(***************************************************************************)
Tok(f, i) == IF i >= 1 /\ i <= Len(f) THEN f[i] ELSE Eof
IsP(f, i, s) == Tok(f, i).k = "p" /\ Tok(f, i).v = s
IsS(f, i, s) == Tok(f, i).k = "s" /\ Tok(f, i).v = s
Parsed(v, n) == [ok |-> TRUE, val |-> v, next |-> n]
NoParse == [ok |-> FALSE, val |-> <<>>, next |-> 0]

RECURSIVE DecStrItems(_, _, _)
DecStrItems(f, i, acc) ==
    IF Tok(f, i).k # "s" THEN NoParse
    ELSE LET acc2 == Append(acc, Tok(f, i).v)
         IN  IF IsP(f, i + 1, ",") THEN DecStrItems(f, i + 2, acc2)
             ELSE IF IsP(f, i + 1, "]") THEN Parsed(acc2, i + 2)
             ELSE NoParse

DecStrArray(f, i) ==
    IF ~IsP(f, i, "[") THEN NoParse
    ELSE IF IsP(f, i + 1, "]") THEN Parsed(<<>>, i + 2)
    ELSE DecStrItems(f, i + 1, <<>>)

\* #[derive(Deserialize)] for Job
DecJob(f, i) ==
    IF ~(IsP(f, i, "{") /\ Tok(f, i + 1).k = "s" /\ IsP(f, i + 2, ":")) THEN NoParse
    ELSE IF IsS(f, i + 1, "Command")
    THEN IF ~(IsP(f, i + 3, "[") /\ Tok(f, i + 4).k = "s" /\ IsP(f, i + 5, ",")) THEN NoParse
         ELSE LET a == DecStrArray(f, i + 6)
              IN  IF a.ok /\ IsP(f, a.next, "]") /\ IsP(f, a.next + 1, "}")
                  THEN Parsed(JobCommand(Tok(f, i + 4).v, a.val), a.next + 2)
                  ELSE NoParse
    ELSE IF IsS(f, i + 1, "RhaiScript")
    THEN IF Tok(f, i + 3).k = "s" /\ IsP(f, i + 4, "}")
         THEN Parsed(JobRhaiScript(Tok(f, i + 3).v), i + 5) ELSE NoParse
    ELSE IF IsS(f, i + 1, "RhaiScriptFile")
    THEN IF Tok(f, i + 3).k = "s" /\ IsP(f, i + 4, "}")
         THEN Parsed(JobRhaiScriptFile(Tok(f, i + 3).v), i + 5) ELSE NoParse
    ELSE NoParse

\* Option<u64>: null, or a number that fits u64
DecOptU64(f, i) ==
    IF Tok(f, i).k = "null" THEN Parsed(None, i + 1)
    ELSE IF Tok(f, i).k = "n" /\ Tok(f, i).v >= 0 THEN Parsed(Some(Tok(f, i).v), i + 1)
    ELSE NoParse

\* #[derive(Deserialize)] for JobInfo
DecJobInfo(f, i) ==
    IF ~(/\ IsP(f, i, "{")
         /\ IsS(f, i + 1, "id") /\ IsP(f, i + 2, ":") /\ Tok(f, i + 3).k = "s"
         /\ IsP(f, i + 4, ",")
         /\ IsS(f, i + 5, "cron") /\ IsP(f, i + 6, ":") /\ Tok(f, i + 7).k = "s"
         /\ IsP(f, i + 8, ",")
         /\ IsS(f, i + 9, "last_run") /\ IsP(f, i + 10, ":"))
    THEN NoParse
    ELSE LET l == DecOptU64(f, i + 11)
         IN  IF ~(l.ok /\ IsP(f, l.next, ",") /\ IsS(f, l.next + 1, "next_run")
                    /\ IsP(f, l.next + 2, ":"))
             THEN NoParse
             ELSE LET n == DecOptU64(f, l.next + 3)
                  IN  IF ~(n.ok /\ IsP(f, n.next, ",") /\ IsS(f, n.next + 1, "job")
                             /\ IsP(f, n.next + 2, ":"))
                      THEN NoParse
                      ELSE LET j == DecJob(f, n.next + 3)
                           IN  IF j.ok /\ IsP(f, j.next, "}")
                               THEN Parsed(JobInfo(Tok(f, i + 3).v, Tok(f, i + 7).v,
                                                   l.val, n.val, j.val), j.next + 1)
                               ELSE NoParse

RECURSIVE DecJobInfoItems(_, _, _)
DecJobInfoItems(f, i, acc) ==
    LET ji == DecJobInfo(f, i)
    IN  IF ~ji.ok THEN NoParse
        ELSE LET acc2 == Append(acc, ji.val)
             IN  IF IsP(f, ji.next, ",") THEN DecJobInfoItems(f, ji.next + 1, acc2)
                 ELSE IF IsP(f, ji.next, "]") THEN Parsed(acc2, ji.next + 1)
                 ELSE NoParse

DecJobInfoArray(f, i) ==
    IF ~IsP(f, i, "[") THEN NoParse
    ELSE IF IsP(f, i + 1, "]") THEN Parsed(<<>>, i + 2)
    ELSE DecJobInfoItems(f, i + 1, <<>>)

UnitCommands == {"ListJobs", "StopService", "PingService"}

\* Command::from_bytes: Ok(cmd), or Err("decode") for a frame that is not
\* the encoding of a Command
CommandFromBytes(f) ==
    IF Len(f) = 1
    THEN IF Tok(f, 1).k = "s" /\ Tok(f, 1).v \in UnitCommands
         THEN Ok([tag |-> Tok(f, 1).v]) ELSE Err("decode")
    ELSE IF ~(IsP(f, 1, "{") /\ IsP(f, 3, ":") /\ IsP(f, 4, "{")) THEN Err("decode")
    ELSE IF IsS(f, 2, "AddJob")
    THEN IF ~(IsS(f, 5, "cron") /\ IsP(f, 6, ":") /\ Tok(f, 7).k = "s" /\ IsP(f, 8, ",")
               /\ IsS(f, 9, "job") /\ IsP(f, 10, ":"))
         THEN Err("decode")
         ELSE LET j == DecJob(f, 11)
              IN  IF j.ok /\ IsP(f, j.next, "}") /\ IsP(f, j.next + 1, "}")
                       /\ Len(f) = j.next + 1
                  THEN Ok(new_add_job(Tok(f, 7).v, j.val))
                  ELSE Err("decode")
    ELSE IF IsS(f, 2, "DeleteJob")
    THEN IF IsS(f, 5, "id") /\ IsP(f, 6, ":") /\ Tok(f, 7).k = "s" /\ IsP(f, 8, "}")
              /\ IsP(f, 9, "}") /\ Len(f) = 9
         THEN Ok(new_delete_job(Tok(f, 7).v))
         ELSE Err("decode")
    ELSE Err("decode")

UnitResponses == {"JobDeleted", "ServiceRunning", "ServiceStopped"}

\* CommandResponse::from_bytes
ResponseFromBytes(f) ==
    IF Len(f) = 1
    THEN IF Tok(f, 1).k = "s" /\ Tok(f, 1).v \in UnitResponses
         THEN Ok([tag |-> Tok(f, 1).v]) ELSE Err("decode")
    ELSE IF ~(IsP(f, 1, "{") /\ IsP(f, 3, ":")) THEN Err("decode")
    ELSE IF IsS(f, 2, "JobAdded")
    THEN IF Tok(f, 4).k = "s" /\ IsP(f, 5, "}") /\ Len(f) = 5
         THEN Ok(JobAdded(Tok(f, 4).v)) ELSE Err("decode")
    ELSE IF IsS(f, 2, "JobList")
    THEN LET a == DecJobInfoArray(f, 4)
         IN  IF a.ok /\ IsP(f, a.next, "}") /\ Len(f) = a.next
             THEN Ok(JobList(a.val)) ELSE Err("decode")
    ELSE Err("decode")

(***************************************************************************)
(* Uuid (uuid crate).  The model knows the identifiers of UuidHyphenated; *)
(* to_string gives the hyphenated lower-case form, parse_str also reads   *)
(* the simple form (no hyphens) and rejects any other text.               *)
(***************************************************************************)
UuidHyphenated ==
    << "00000000-0000-4000-8000-000000000001", "00000000-0000-4000-8000-000000000002",
       "00000000-0000-4000-8000-000000000003", "00000000-0000-4000-8000-000000000004" >>
UuidSimple ==
    << "00000000000040008000000000000001", "00000000000040008000000000000002",
       "00000000000040008000000000000003", "00000000000040008000000000000004" >>
Uuids == 1..Len(UuidHyphenated)

\* Uuid::to_string
UuidToString(u) == UuidHyphenated[u]

\* mutant of UuidParseStr: a text that is no identifier parses as the first
\* identifier
UuidParseStrLenient(text) ==
    IF \E u \in Uuids : text = UuidHyphenated[u] \/ text = UuidSimple[u]
    THEN Ok(CHOOSE u \in Uuids : text = UuidHyphenated[u] \/ text = UuidSimple[u])
    ELSE Ok(1)

\* Uuid::parse_str
UuidParseStr(text) ==
    IF \E u \in Uuids : text = UuidHyphenated[u] \/ text = UuidSimple[u]
    THEN Ok(CHOOSE u \in Uuids : text = UuidHyphenated[u] \/ text = UuidSimple[u])
    ELSE Err("badid")

(***************************************************************************)
(* Cron engine (tokio_cron_scheduler), seen through the calls that        *)
(* scheduler.rs makes.                                                     *)
(***************************************************************************)
\* the cron expressions of the model that JobBuilder::with_schedule accepts
ValidCrons == {"0/1 * * * * *", "0 0 * * * *"}

\* JobBuilder::with_schedule(cron)?
with_schedule(cron) == IF cron \in ValidCrons THEN Ok(cron) ELSE Err("badcron")

\* next tick the engine stores for a new entry: the first instant of the
\* schedule after the instant of registration (instant 0)
schedule_next_tick(cron) == IF cron = "0/1 * * * * *" THEN 1 ELSE 3600

\* JobStoredData of a cron job at registration
JobStoredData(id, cron) ==
    [id |-> Some(id), schedule |-> Some(cron), last_tick |-> None,
     next_tick |-> schedule_next_tick(cron)]

\* mutant of jobs_insert: the map is replaced by the one entry
jobs_insert_replace(js, id, job) == [x \in {id} |-> job]

\* mutant of jobs_insert: the insert is lost
jobs_insert_lost(js, id, job) == js

\* jobs.write().await.insert(id, job)
jobs_insert(js, id, job) == [x \in DOMAIN js \cup {id} |-> IF x = id THEN job ELSE js[x]]

\* mutant of jobs_retain: the predicate of retain holds of every entry
jobs_retain_all(js, id) == js

\* mutant of jobs_retain: the predicate of retain inverted (job_id.eq(&id))
jobs_retain_eq(js, id) == [x \in {k \in DOMAIN js : k = id} |-> js[x]]

\* jobs.write().await.retain(|job_id, _| job_id.ne(&id))
jobs_retain(js, id) == [x \in {k \in DOMAIN js : k # id} |-> js[x]]

\* scheduler.add(cron_job): the engine stores the entry's metadata
scheduler_add(md, id, cron) ==
    [x \in DOMAIN md \cup {id} |-> IF x = id THEN JobStoredData(id, cron) ELSE md[x]]

\* scheduler.remove(&id): the engine drops the entry's metadata
scheduler_remove(md, id) == [x \in DOMAIN md \ {id} |-> md[x]]

\* metadata.get(id): Some(job_data) of a registered entry, else None
MetadataGet(md, id) == IF id \in DOMAIN md THEN Some(md[id]) ELSE None

\* the iteration orders of a HashMap with the keys ks
Orders(ks) ==
    {o \in [1..Cardinality(ks) -> ks] : \A i, j \in 1..Cardinality(ks) : o[i] = o[j] => i = j}

(***************************************************************************)
(* The handlers of scheduler.rs as functions of the handler's state: each *)
(* returns the CronusResult<CommandResponse> and the state it leaves.     *)
(***************************************************************************)
Outcome(res, js, md, eng, next) ==
    [res |-> res, jobs |-> js, metadata |-> md, engine |-> eng, nextUuid |-> next]

\* mutant of handle_cmd_add_job: the job is inserted into the jobs map before
\* the schedule is parsed
handle_cmd_add_job_insert_first(js, md, eng, uuid, cron, job) ==
    IF ~with_schedule(cron).ok
    THEN Outcome(Err(with_schedule(cron).err), jobs_insert(js, uuid, job), md, eng, uuid)
    ELSE Outcome(Ok(JobAdded(UuidToString(uuid))),
                 jobs_insert(js, uuid, job),
                 scheduler_add(md, uuid, cron),
                 eng, uuid + 1)

\* mutant of handle_cmd_add_job: the id is the first one that no job of the
\* map has, in place of the guid of the job built
handle_cmd_add_job_reuse(js, md, eng, uuid, cron, job) ==
    LET id == CHOOSE u \in 1..uuid : u \notin DOMAIN js /\ \A v \in 1..(u - 1) : v \in DOMAIN js
    IN  IF ~with_schedule(cron).ok
        THEN Outcome(Err(with_schedule(cron).err), js, md, eng, uuid)
        ELSE Outcome(Ok(JobAdded(UuidToString(id))),
                     jobs_insert(js, id, job),
                     scheduler_add(md, id, cron),
                     eng, uuid + 1)

\* CronusScheduler::handle_cmd_add_job; uuid is the guid of the job built
handle_cmd_add_job(js, md, eng, uuid, cron, job) ==
    IF ~with_schedule(cron).ok
    THEN Outcome(Err(with_schedule(cron).err), js, md, eng, uuid)
    ELSE Outcome(Ok(JobAdded(UuidToString(uuid))),
                 jobs_insert(js, uuid, job),
                 scheduler_add(md, uuid, cron),
                 eng, uuid + 1)

\* mutant of job_list: the cron of a JobInfo is the default string, the
\* schedule of the entry is not read
RECURSIVE job_list_default_cron(_, _, _)
job_list_default_cron(order, js, md) ==
    IF order = <<>> THEN <<>>
    ELSE LET id == Head(order)
             job_data == MetadataGet(md, id)
         IN  IF job_data # None
             THEN <<JobInfo(IF job_data[1].id # None THEN UuidToString(job_data[1].id[1]) ELSE "",
                             "",
                             job_data[1].last_tick,
                             Some(job_data[1].next_tick),
                             js[id])>> \o job_list_default_cron(Tail(order), js, md)
             ELSE job_list_default_cron(Tail(order), js, md)

\* mutant of job_list: a job without metadata is listed with empty fields
RECURSIVE job_list_placeholder(_, _, _)
job_list_placeholder(order, js, md) ==
    IF order = <<>> THEN <<>>
    ELSE LET id == Head(order)
             job_data == MetadataGet(md, id)
         IN  IF job_data # None
             THEN <<JobInfo(IF job_data[1].id # None THEN UuidToString(job_data[1].id[1]) ELSE "",
                             IF job_data[1].schedule # None THEN job_data[1].schedule[1] ELSE "",
                             job_data[1].last_tick,
                             Some(job_data[1].next_tick),
                             js[id])>> \o job_list_placeholder(Tail(order), js, md)
             ELSE <<JobInfo(UuidToString(id), "", None, None, js[id])>>
                  \o job_list_placeholder(Tail(order), js, md)

\* the loop of handle_cmd_list_job over the jobs map, in iteration order
RECURSIVE job_list(_, _, _)
job_list(order, js, md) ==
    IF order = <<>> THEN <<>>
    ELSE LET id == Head(order)
             job_data == MetadataGet(md, id)
         IN  IF job_data # None
             THEN <<JobInfo(IF job_data[1].id # None THEN UuidToString(job_data[1].id[1]) ELSE "",
                             IF job_data[1].schedule # None THEN job_data[1].schedule[1] ELSE "",
                             job_data[1].last_tick,
                             Some(job_data[1].next_tick),
                             js[id])>> \o job_list(Tail(order), js, md)
             ELSE job_list(Tail(order), js, md)

\* CronusScheduler::handle_cmd_list_job
handle_cmd_list_job(js, md, eng, next, order) ==
    Outcome(Ok(JobList(job_list(order, js, md))), js, md, eng, next)

\* mutant of handle_cmd_delete_job: JobDeleted without the removal
handle_cmd_delete_job_no_remove(js, md, eng, next, id, removeOk) ==
    IF id \notin DOMAIN md /\ ~removeOk
    THEN Outcome(Err("unknown"), js, md, eng, next)
    ELSE Outcome(Ok(JobDeleted), js, md, eng, next)

\* CronusScheduler::handle_cmd_delete_job; removeOk is the answer of
\* scheduler.remove for an id the engine does not hold
handle_cmd_delete_job(js, md, eng, next, id, removeOk) ==
    IF id \notin DOMAIN md /\ ~removeOk
    THEN Outcome(Err("unknown"), js, md, eng, next)
    ELSE Outcome(Ok(JobDeleted), jobs_retain(js, id), scheduler_remove(md, id), eng, next)

\* mutant of handle_cmd_stop_service: the jobs map is emptied with the
\* shutdown
handle_cmd_stop_service_clear(js, md, eng, next) ==
    Outcome(Ok(ServiceStopped), [x \in {} |-> js[x]], md, "shutdown", next)

\* mutant of handle_cmd_stop_service: ServiceStopped without the shutdown of
\* the engine
handle_cmd_stop_service_no_shutdown(js, md, eng, next) ==
    Outcome(Ok(ServiceStopped), js, md, eng, next)

\* CronusScheduler::handle_cmd_stop_service
handle_cmd_stop_service(js, md, eng, next) ==
    Outcome(Ok(ServiceStopped), js, md, "shutdown", next)

\* the match of handle_command.  It has the four arms below; a command of
\* another variant (PingService) finds no arm, produces no response and
\* fails the handler.
handle_command_match(cmd, js, md, eng, next, order, removeOk) ==
    CASE cmd.tag = "AddJob" -> handle_cmd_add_job(js, md, eng, next, cmd.cron, cmd.job)
      [] cmd.tag = "ListJobs" -> handle_cmd_list_job(js, md, eng, next, order)
      [] cmd.tag = "DeleteJob" ->
            IF UuidParseStr(cmd.id).ok
            THEN handle_cmd_delete_job(js, md, eng, next, UuidParseStr(cmd.id).val, removeOk)
            ELSE Outcome(Err(UuidParseStr(cmd.id).err), js, md, eng, next)
      [] cmd.tag = "StopService" -> handle_cmd_stop_service(js, md, eng, next)
      [] OTHER -> Outcome(Err("nomatch"), js, md, eng, next)

(***************************************************************************)
(* Inputs of the clients.                                                  *)
(***************************************************************************)
\* the jobs of the accepted AddJob commands.  The control loop never looks
\* into a job (handle_cmd_add_job hands it to Job::to_business and stores
\* it), so one variant is registered; the Command variant travels in the
\* add that the cron parser rejects, and CodecJobs has both encodings.
JobValues == {JobRhaiScript("1")}
IdTexts ==
    {UuidHyphenated[u] : u \in 1..MaxIds} \cup {UuidSimple[1], "not-a-uuid"}
Commands ==
    {new_add_job("0/1 * * * * *", j) : j \in JobValues}
    \cup {new_add_job("not-a-cron", JobCommand("/bin/true", <<>>))}
    \cup {new_delete_job(t) : t \in IdTexts}
    \cup {new_list_jobs, new_stop_service, new_ping_service}
\* frames that no CommandClient produces
RawFrames == {<<S("Bogus")>>}

Unit == "()"

(***************************************************************************)
(* State.                                                                  *)
(***************************************************************************)
VARIABLES
    cpc,       \* CommandClient c: "new", "nodial", "ready" (dialed), "waiting" (in cmd_request),
               \* "elsewhere" (dialed to the second service), "exited" (the
               \* process of the client binary ended before a request)
    creq,      \* Option: the command of the cmd_request c is in
    crep,      \* Option: what c's last cmd_request returned
    nreq,      \* number of frames the clients have sent
    cli,       \* Option: the delete command of a client binary that the process
               \* of c runs: the binary, the id text of its command line, and its
               \* position "dialed", "sent", "exited"
    ipcReq,    \* request frame of c in flight to the listener (<<>>: none)
    ipcRep,    \* reply frame in flight to c (<<>>: none)
    repPipe,   \* Rep0 socket: the client whose request was received and not answered
    bound,     \* the listening socket exists: the path is dialable
    pPc,       \* parse_command: "listen", "recv", "forward", "reply", "done", "failed", "dropped"
    pStop,     \* parse_command: stop_service
    pCmd,      \* parse_command: cmd (Option)
    pRes,      \* Option: the CronusResult<()> of parse_command
    hPc,       \* handle_command: "recv", "done", "failed", "dropped"
    hRes,      \* Option: the CronusResult<()> of handle_command
    cmdChan,   \* cmd_sender -> cmd_receiver
    resChan,   \* cmd_res_sender -> cmd_res_receiver
    jobs,      \* handle_command: HashMap<Uuid, Job>
    engine,    \* JobScheduler: "none", "started", "shutdown"
    metadata,  \* JobScheduler: metadata_storage
    nextUuid,  \* the next identifier JobBuilder::build hands out
    sPc,       \* service entry: "init", "constructed", "running", "returned"
    runRes,    \* Option: the CronusResult<CommandResponse> of run
    live,      \* history: the id texts of the JobAdded responses, less those a
               \* later DeleteJob answered with JobDeleted named
    issued,    \* history: the id texts of all the JobAdded responses
    given,     \* history: for the id text of each JobAdded response, the cron
               \* and the job of the AddJob it answered
    other,     \* a second service process started on the same path: "absent",
               \* "bound" (its new_listen worked), "failed" (its new_listen
               \* failed and its run returned the error), "returned"
    spawned,   \* bag of ids: closures of with_run_async the engine has spawned,
               \* before the answer of next_tick_for_job
    executing, \* bag of ids: calls of business(ts) in progress
    nfired,    \* number of times the engine has fired a job
    children,  \* bag of ids: processes that the business of a Command job has
               \* spawned and that have not exited
    swallowed, \* history: number of calls of business whose executor got an
               \* Err (of cmd.spawn, rhai::run, rhai::run_file) and dropped it
    codec      \* a value on its way through to_bytes and from_bytes (CodecSpec)

vars == <<cpc, creq, crep, nreq, cli, ipcReq, ipcRep, repPipe, bound, pPc, pStop, pCmd, pRes,
          hPc, hRes, cmdChan, resChan, jobs, engine, metadata, nextUuid, sPc, runRes, live, issued,
          given, other, spawned, executing, nfired, children, swallowed, codec>>

engineVars == <<spawned, executing, nfired, children, swallowed>>
clientVars == <<cpc, creq, crep, nreq, cli>>
ipcVars == <<ipcReq, ipcRep, repPipe>>
handlerState == <<jobs, engine, metadata, nextUuid>>

EmptyMap == [x \in {} |-> <<>>]

\* no value is in the codec
CodecIdle == [kind |-> "none", val |-> <<>>, bytes |-> None, back |-> None]

\* the control loop and the engine after construction
InitControl ==
    /\ cpc = [c \in Clients |-> "new"]
    /\ creq = [c \in Clients |-> None]
    /\ crep = [c \in Clients |-> None]
    /\ nreq = 0
    /\ cli = [c \in Clients |-> None]
    /\ ipcReq = [c \in Clients |-> <<>>]
    /\ ipcRep = [c \in Clients |-> <<>>]
    /\ repPipe = NoClient
    /\ bound = FALSE
    /\ pPc = "listen"
    /\ pStop = FALSE
    /\ pCmd = None
    /\ pRes = None
    /\ hPc = "recv"
    /\ hRes = None
    /\ cmdChan = <<>>
    /\ resChan = <<>>
    /\ jobs = EmptyMap
    /\ engine = "none"
    /\ metadata = EmptyMap
    /\ nextUuid = 1
    /\ sPc = "init"
    /\ runRes = None
    /\ live = {}
    /\ issued = {}
    /\ given = EmptyMap
    /\ other = "absent"
    /\ spawned = EmptyBag
    /\ executing = EmptyBag
    /\ nfired = 0
    /\ children = EmptyBag
    /\ swallowed = 0

Init ==
    /\ codec = CodecIdle
    /\ InitControl

\* the history `live` after the handler answered cmd with res
LiveAfter(l, cmd, res) ==
    IF res.tag = "JobAdded" THEN l \cup {res.id}
    ELSE IF res.tag = "JobDeleted"
    THEN {t \in l : UuidParseStr(t) # UuidParseStr(cmd.id)}
    ELSE l

\* the history `issued` after the handler answered with res
IssuedAfter(i, res) == IF res.tag = "JobAdded" THEN i \cup {res.id} ELSE i

\* the history `given` after the handler answered cmd with res
GivenAfter(g, cmd, res) ==
    IF res.tag = "JobAdded"
    THEN [t \in DOMAIN g \cup {res.id} |->
            IF t = res.id THEN [cron |-> cmd.cron, job |-> cmd.job] ELSE g[t]]
    ELSE g

(***************************************************************************)
(* Service entry.                                                          *)
(***************************************************************************)
\* mutant of New: the constructor leaves the creation and the start of the
\* engine for later
NewWithoutEngine ==
    /\ sPc = "init"
    /\ engine' = "none"
    /\ sPc' = "constructed"
    /\ UNCHANGED <<clientVars, ipcVars, bound, pPc, pStop, pCmd, pRes, hPc, hRes,
                   cmdChan, resChan, jobs, metadata, nextUuid, runRes, live, issued, given, other, codec, engineVars>>

\* CronusScheduler::new: JobScheduler::new, scheduler.start, the two channels
\* and the two futures (not yet polled)
New ==
    /\ sPc = "init"
    /\ engine' = "started"
    /\ sPc' = "constructed"
    /\ UNCHANGED <<clientVars, ipcVars, bound, pPc, pStop, pCmd, pRes, hPc, hRes,
                   cmdChan, resChan, jobs, metadata, nextUuid, runRes, live, issued, given, other, codec, engineVars>>

\* CronusScheduler::run: try_join! starts polling the two futures
Run ==
    /\ sPc = "constructed"
    /\ sPc' = "running"
    /\ UNCHANGED <<clientVars, ipcVars, bound, pPc, pStop, pCmd, pRes, hPc, hRes,
                   cmdChan, resChan, handlerState, runRes, live, issued, given, other, codec, engineVars>>

\* try_join!: the first future that returns Err makes run return that error
\* in the same poll; the other future is dropped where it is suspended, and
\* with the parser future its NngIpcSocket (Drop closes the socket)
ParserFails(e) ==
    /\ pPc' = "failed"
    /\ pRes' = Some(Err(e))
    /\ hPc' = IF hPc = "recv" THEN "dropped" ELSE hPc
    /\ hRes' = hRes
    /\ runRes' = Some(Err(e))
    /\ sPc' = "returned"
    /\ bound' = FALSE

\* mutant of HandlerFails: run goes on waiting for the parser future (a join
\* that does not return at the first error)
HandlerFailsJoinWaits(e) ==
    /\ hPc' = "failed"
    /\ hRes' = Some(Err(e))
    /\ UNCHANGED <<pPc, pRes, runRes, sPc, bound>>

HandlerFails(e) ==
    /\ hPc' = "failed"
    /\ hRes' = Some(Err(e))
    /\ pPc' = IF pPc \in {"listen", "recv", "forward", "reply"} THEN "dropped" ELSE pPc
    /\ pRes' = pRes
    /\ runRes' = Some(Err(e))
    /\ sPc' = "returned"
    /\ bound' = FALSE

\* mutant of Join: run returns as soon as the parser has returned Ok (a
\* select in place of the join)
JoinOnParser ==
    /\ sPc = "running"
    /\ pRes = Some(Ok(Unit))
    /\ runRes' = Some(Ok(ServiceStopped))
    /\ sPc' = "returned"
    /\ UNCHANGED <<clientVars, ipcVars, bound, pPc, pStop, pCmd, pRes, hPc, hRes,
                   cmdChan, resChan, handlerState, live, issued, given, other, codec, engineVars>>

\* try_join!: both futures returned Ok, run returns Ok(ServiceStopped)
Join ==
    /\ sPc = "running"
    /\ pRes = Some(Ok(Unit))
    /\ hRes = Some(Ok(Unit))
    /\ runRes' = Some(Ok(ServiceStopped))
    /\ sPc' = "returned"
    /\ UNCHANGED <<clientVars, ipcVars, bound, pPc, pStop, pCmd, pRes, hPc, hRes,
                   cmdChan, resChan, handlerState, live, issued, given, other, codec, engineVars>>

(***************************************************************************)
(* Parser task: CronusScheduler::parse_command.                            *)
(***************************************************************************)
\* mutant of ParserListen: the listen works whoever holds the path
ParserListenShared ==
    /\ sPc = "running"
    /\ pPc = "listen"
    /\ bound' = TRUE
    /\ pPc' = "recv"
    /\ UNCHANGED <<clientVars, ipcVars, pStop, pCmd, pRes, hPc, hRes, cmdChan, resChan,
                   handlerState, sPc, runRes, live, issued, given, other, codec, engineVars>>

\* NngIpcSocket::new_listen(cmd_path)?: sock.listen() fails when another
\* process listens on the path, and the `?` ends the parser with that error
ParserListen ==
    /\ sPc = "running"
    /\ pPc = "listen"
    /\ IF other = "bound"
       THEN ParserFails("transport")
       ELSE /\ bound' = TRUE
            /\ pPc' = "recv"
            /\ UNCHANGED <<pRes, hPc, hRes, sPc, runRes>>
    /\ UNCHANGED <<clientVars, ipcVars, pStop, pCmd, cmdChan, resChan,
                   handlerState, live, issued, given, other, codec, engineVars>>

\* mutant of stop_service: the flag is never set
stop_service_never(cmd) == FALSE

\* let stop_service = cmd == Command::StopService
stop_service(cmd) == cmd = new_stop_service

\* mutant of ParserRecv: a frame that does not decode is dropped and the
\* parser receives the next one
ParserRecvSkipBad(c) ==
    /\ sPc = "running"
    /\ pPc = "recv"
    /\ ipcReq[c] # <<>>
    /\ ipcReq' = [ipcReq EXCEPT ![c] = <<>>]
    /\ repPipe' = c
    /\ LET cmd == CommandFromBytes(ipcReq[c])
       IN  IF cmd.ok
           THEN /\ pCmd' = Some(cmd.val)
                /\ pStop' = stop_service(cmd.val)
                /\ pPc' = "forward"
                /\ UNCHANGED <<pRes, hPc, hRes, runRes, sPc, bound>>
           ELSE UNCHANGED <<pCmd, pStop, pPc, pRes, hPc, hRes, runRes, sPc, bound>>
    /\ UNCHANGED <<clientVars, ipcRep, cmdChan, resChan, handlerState, live, issued, given, other, codec,
                   engineVars>>

\* cmd_server.recv()?, Command::from_bytes(&msg)?, stop_service
ParserRecv(c) ==
    /\ sPc = "running"
    /\ pPc = "recv"
    /\ ipcReq[c] # <<>>
    /\ ipcReq' = [ipcReq EXCEPT ![c] = <<>>]
    /\ repPipe' = c
    /\ LET cmd == CommandFromBytes(ipcReq[c])
       IN  IF cmd.ok
           THEN /\ pCmd' = Some(cmd.val)
                /\ pStop' = stop_service(cmd.val)
                /\ pPc' = "forward"
                /\ UNCHANGED <<pRes, hPc, hRes, runRes, sPc, bound>>
           ELSE /\ ParserFails(cmd.err)
                /\ UNCHANGED <<pCmd, pStop>>
    /\ UNCHANGED <<clientVars, ipcRep, cmdChan, resChan, handlerState, live, issued, given, other, codec, engineVars>>

\* mutant of ParserForward: the parser does not await the response and goes
\* back to cmd_server.recv()
ParserForwardNoAwait ==
    /\ sPc = "running"
    /\ pPc = "forward"
    /\ hPc # "recv" \/ Len(cmdChan) < ChannelCapacity
    /\ IF hPc = "recv"
       THEN /\ cmdChan' = Append(cmdChan, pCmd[1])
            /\ pCmd' = None
            /\ pPc' = "recv"
            /\ UNCHANGED <<pRes, hPc, hRes, runRes, sPc, bound>>
       ELSE /\ ParserFails("send")
            /\ UNCHANGED <<cmdChan, pCmd>>
    /\ UNCHANGED <<clientVars, ipcVars, pStop, resChan, handlerState, live, issued, given, other, codec, engineVars>>

\* cmd_sender.send(cmd).await?
ParserForward ==
    /\ sPc = "running"
    /\ pPc = "forward"
    /\ hPc # "recv" \/ Len(cmdChan) < ChannelCapacity
    /\ IF hPc = "recv"
       THEN /\ cmdChan' = Append(cmdChan, pCmd[1])
            /\ pCmd' = None
            /\ pPc' = "reply"
            /\ UNCHANGED <<pRes, hPc, hRes, runRes, sPc, bound>>
       ELSE /\ ParserFails("send")
            /\ UNCHANGED <<cmdChan, pCmd>>
    /\ UNCHANGED <<clientVars, ipcVars, pStop, resChan, handlerState, live, issued, given, other, codec, engineVars>>

\* mutant of RepSend: the reply goes to the first dialer, whoever asked
RepSendFirstPipe(frame) ==
    IF repPipe = NoClient
    THEN [res |-> Err("transport"), ipcRep |-> ipcRep, repPipe |-> repPipe]
    ELSE [res |-> Ok(Unit), ipcRep |-> [ipcRep EXCEPT ![1] = frame],
          repPipe |-> NoClient]

\* NngIpcSocket::send on the Rep0 socket: the reply goes to the client whose
\* request is being answered; without one the socket refuses
RepSend(frame) ==
    IF repPipe = NoClient
    THEN [res |-> Err("transport"), ipcRep |-> ipcRep, repPipe |-> repPipe]
    ELSE [res |-> Ok(Unit), ipcRep |-> [ipcRep EXCEPT ![repPipe] = frame],
          repPipe |-> NoClient]

\* mutant of ParserReply: without the test of stop_service, the parser goes
\* round its loop after every reply
ParserReplyLoopsOn ==
    /\ sPc = "running"
    /\ pPc = "reply"
    /\ resChan # <<>> \/ hPc # "recv"
    /\ IF resChan # <<>>
       THEN LET sent == RepSend(ResponseToBytes(Head(resChan)))
            IN  /\ resChan' = Tail(resChan)
                /\ ipcRep' = sent.ipcRep
                /\ repPipe' = sent.repPipe
                /\ IF ~sent.res.ok
                   THEN ParserFails(sent.res.err)
                   ELSE /\ pPc' = "recv"
                        /\ UNCHANGED <<pRes, bound, hPc, hRes, runRes, sPc>>
       ELSE /\ UNCHANGED <<resChan, ipcRep, repPipe>>
            /\ pPc' = "recv"
            /\ UNCHANGED <<pRes, bound, hPc, hRes, runRes, sPc>>
    /\ UNCHANGED <<clientVars, ipcReq, pStop, pCmd, cmdChan, handlerState, live, issued, given, other, codec, engineVars>>

\* mutant of ParserReply: the parser does not take the response from the
\* reply channel and sends no reply
ParserReplyNoRecv ==
    /\ sPc = "running"
    /\ pPc = "reply"
    /\ IF pStop
       THEN /\ pPc' = "done"
            /\ pRes' = Some(Ok(Unit))
            /\ bound' = FALSE
       ELSE /\ pPc' = "recv"
            /\ UNCHANGED <<pRes, bound>>
    /\ UNCHANGED <<clientVars, ipcVars, pStop, pCmd, hPc, hRes, cmdChan, resChan, handlerState,
                   sPc, runRes, live, issued, given, other, codec, engineVars>>

\* mutant of ParserReply: the test of stop_service comes first, the parser
\* returns without waiting for the response
ParserReplyReturnFirst ==
    /\ sPc = "running"
    /\ pPc = "reply"
    /\ pStop \/ resChan # <<>>
    /\ IF pStop
       THEN /\ pPc' = "done"
            /\ pRes' = Some(Ok(Unit))
            /\ bound' = FALSE
            /\ UNCHANGED <<resChan, ipcRep, repPipe, hPc, hRes, runRes, sPc>>
       ELSE LET sent == RepSend(ResponseToBytes(Head(resChan)))
            IN  /\ resChan' = Tail(resChan)
                /\ ipcRep' = sent.ipcRep
                /\ repPipe' = sent.repPipe
                /\ pPc' = "recv"
                /\ UNCHANGED <<pRes, bound, hPc, hRes, runRes, sPc>>
    /\ UNCHANGED <<clientVars, ipcReq, pStop, pCmd, cmdChan, handlerState, live, issued, given, other, codec, engineVars>>

\* if let Some(res) = cmd_res_receiver.recv().await { cmd_server.send(..)? }
\* if stop_service { return Ok(()) }
ParserReply ==
    /\ sPc = "running"
    /\ pPc = "reply"
    /\ resChan # <<>> \/ hPc # "recv"
    /\ IF resChan # <<>>
       THEN LET sent == RepSend(ResponseToBytes(Head(resChan)))
            IN  /\ resChan' = Tail(resChan)
                /\ ipcRep' = sent.ipcRep
                /\ repPipe' = sent.repPipe
                /\ IF ~sent.res.ok
                   THEN ParserFails(sent.res.err)
                   ELSE IF pStop
                   THEN /\ pPc' = "done"
                        /\ pRes' = Some(Ok(Unit))
                        /\ bound' = FALSE
                        /\ UNCHANGED <<hPc, hRes, runRes, sPc>>
                   ELSE /\ pPc' = "recv"
                        /\ UNCHANGED <<pRes, bound, hPc, hRes, runRes, sPc>>
       ELSE /\ UNCHANGED <<resChan, ipcRep, repPipe>>
            /\ IF pStop
               THEN /\ pPc' = "done"
                    /\ pRes' = Some(Ok(Unit))
                    /\ bound' = FALSE
                    /\ UNCHANGED <<hPc, hRes, runRes, sPc>>
               ELSE /\ pPc' = "recv"
                    /\ UNCHANGED <<pRes, bound, hPc, hRes, runRes, sPc>>
    /\ UNCHANGED <<clientVars, ipcReq, pStop, pCmd, cmdChan, handlerState, live, issued, given, other, codec, engineVars>>

(***************************************************************************)
(* Handler task: CronusScheduler::handle_command.                          *)
(***************************************************************************)
\* one turn of the loop with Some(cmd): the match, then
\* cmd_res_sender.send(res).await?
HandleCommand ==
    /\ sPc = "running"
    /\ hPc = "recv"
    /\ cmdChan # <<>>
    /\ Len(resChan) < ChannelCapacity
    /\ LET cmd == Head(cmdChan)
       IN  /\ (cmd.tag = "AddJob" /\ with_schedule(cmd.cron).ok) => nextUuid <= MaxIds
           /\ \E order \in Orders(DOMAIN jobs), removeOk \in BOOLEAN :
                LET r == handle_command_match(cmd, jobs, metadata, engine, nextUuid,
                                              order, removeOk)
                IN  /\ jobs' = r.jobs
                    /\ metadata' = r.metadata
                    /\ engine' = r.engine
                    /\ nextUuid' = r.nextUuid
                    /\ IF r.res.ok
                       THEN /\ resChan' = Append(resChan, r.res.val)
                            /\ live' = LiveAfter(live, cmd, r.res.val)
                            /\ issued' = IssuedAfter(issued, r.res.val)
                            /\ given' = GivenAfter(given, cmd, r.res.val)
                            /\ UNCHANGED <<pPc, pRes, hPc, hRes, runRes, sPc, bound>>
                       ELSE /\ HandlerFails(r.res.err)
                            /\ UNCHANGED <<resChan, live, issued, given>>
    /\ cmdChan' = Tail(cmdChan)
    /\ UNCHANGED <<clientVars, ipcVars, pStop, pCmd, engineVars, other, codec>>

\* mutant of HandlerClosed: the handler returns when it finds the channel
\* empty, the sender alive or not (a try_recv in place of the recv)
HandlerClosedOnEmpty ==
    /\ sPc = "running"
    /\ hPc = "recv"
    /\ cmdChan = <<>>
    /\ hPc' = "done"
    /\ hRes' = Some(Ok(Unit))
    /\ UNCHANGED <<clientVars, ipcVars, bound, pPc, pStop, pCmd, pRes, cmdChan, resChan,
                   handlerState, sPc, runRes, live, issued, given, other, codec, engineVars>>

\* mutant of HandlerClosed: the closed channel is an error of the handler
HandlerClosedAsError ==
    /\ sPc = "running"
    /\ hPc = "recv"
    /\ cmdChan = <<>>
    /\ pPc = "done"
    /\ HandlerFails("closed")
    /\ UNCHANGED <<clientVars, ipcVars, pStop, pCmd, cmdChan, resChan,
                   handlerState, live, issued, given, other, codec, engineVars>>

\* cmd_receiver.recv() returns None: the channel is empty and the parser
\* future, which owns cmd_sender, has returned
HandlerClosed ==
    /\ sPc = "running"
    /\ hPc = "recv"
    /\ cmdChan = <<>>
    /\ pPc = "done"
    /\ hPc' = "done"
    /\ hRes' = Some(Ok(Unit))
    /\ UNCHANGED <<clientVars, ipcVars, bound, pPc, pStop, pCmd, pRes, cmdChan, resChan,
                   handlerState, sPc, runRes, live, issued, given, other, codec, engineVars>>

(***************************************************************************)
(* Engine: the firing of a registered job, and the closure that            *)
(* handle_cmd_add_job gives to with_run_async.                             *)
(***************************************************************************)
\* the distance of two instants of a schedule
schedule_period(cron) == IF cron = "0/1 * * * * *" THEN 1 ELSE 3600

\* the entry of a job the engine fires: the tick that was next becomes the
\* last one, the next tick moves on by the schedule
JobStoredDataFired(d) ==
    [d EXCEPT !.last_tick = Some(d.next_tick),
              !.next_tick = d.next_tick + schedule_period(d.schedule[1])]

\* mutant of EngineFireUpTo: a job is not fired while a firing of it is in
\* progress
EngineFireExclusive(u, limit) ==
    /\ sPc = "running"
    /\ engine = "started"
    /\ u \in DOMAIN metadata
    /\ ~BagIn(u, spawned)
    /\ ~BagIn(u, executing)
    /\ nfired < limit
    /\ nfired' = nfired + 1
    /\ metadata' = [metadata EXCEPT ![u] = JobStoredDataFired(@)]
    /\ spawned' = spawned (+) SetToBag({u})
    /\ UNCHANGED <<clientVars, ipcVars, bound, pPc, pStop, pCmd, pRes, hPc, hRes, cmdChan,
                   resChan, jobs, engine, nextUuid, sPc, runRes, live, issued, given, other, codec, executing,
                   children, swallowed>>

\* the engine, started and not shut down, fires a registered job whose tick
\* has come: it spawns the closure of with_run_async; limit bounds the number
\* of firings
EngineFireUpTo(u, limit) ==
    /\ sPc = "running"
    /\ engine = "started"
    /\ u \in DOMAIN metadata
    /\ nfired < limit
    /\ nfired' = nfired + 1
    /\ metadata' = [metadata EXCEPT ![u] = JobStoredDataFired(@)]
    /\ spawned' = spawned (+) SetToBag({u})
    /\ UNCHANGED <<clientVars, ipcVars, bound, pPc, pStop, pCmd, pRes, hPc, hRes, cmdChan,
                   resChan, jobs, engine, nextUuid, sPc, runRes, live, issued, given, other, codec, executing,
                   children, swallowed>>

\* a firing while the clients make their requests
EngineFire(u) == EngineFireUpTo(u, MaxFirings)

\* mutant of next_tick_for_job: the tick is answered without a look at
\* the entries
next_tick_for_job_any(md, u) == Some(0)

\* scheduler.next_tick_for_job(id): Some(next_tick) of a registered entry
next_tick_for_job(md, u) == IF u \in DOMAIN md THEN Some(md[u].next_tick) ELSE None

\* mutant of ClosureRun: business is called without the test of the answer
\* and again inside it
ClosureRunTwice(u) ==
    /\ sPc = "running"
    /\ BagIn(u, spawned)
    /\ spawned' = spawned (-) SetToBag({u})
    /\ executing' = IF next_tick_for_job(metadata, u) # None
                    THEN executing (+) SetToBag({u}) (+) SetToBag({u})
                    ELSE executing (+) SetToBag({u})
    /\ UNCHANGED <<clientVars, ipcVars, bound, pPc, pStop, pCmd, pRes, hPc, hRes, cmdChan,
                   resChan, handlerState, sPc, runRes, live, issued, given, other, codec, nfired,
                   children, swallowed>>

\* the closure: if let Ok(Some(ts)) = scheduler.next_tick_for_job(id).await
\* { business(ts) }
ClosureRun(u) ==
    /\ sPc = "running"
    /\ BagIn(u, spawned)
    /\ spawned' = spawned (-) SetToBag({u})
    /\ executing' = IF next_tick_for_job(metadata, u) # None
                    THEN executing (+) SetToBag({u})
                    ELSE executing
    /\ UNCHANGED <<clientVars, ipcVars, bound, pPc, pStop, pCmd, pRes, hPc, hRes, cmdChan,
                   resChan, handlerState, sPc, runRes, live, issued, given, other, codec, nfired,
                   children, swallowed>>

\* the job that the business of the closures of u captured: the job of the
\* AddJob that registered u (job.clone().to_business())
business_job(u) == given[UuidToString(u)].job

\* rhai::run(&script): whether the script evaluates without an error.  "1"
\* is an expression; "x" reads a variable that no scope defines
rhai_run(script) == script # "x"

\* what the call inside the executor of job can answer, TRUE for Ok: whether
\* cmd.spawn() and rhai::run_file work is for the file system to decide
executor_results(job) ==
    IF job.tag = "RhaiScript" THEN {rhai_run(job.script)} ELSE BOOLEAN

\* mutant of BusinessReturn: the executor hands the Err on and it ends the
\* handler task, as the `?` of a handler does
BusinessReturnEscalates(u) ==
    /\ sPc = "running"
    /\ BagIn(u, executing)
    /\ executing' = executing (-) SetToBag({u})
    /\ \E ok \in executor_results(business_job(u)) :
         /\ children' = IF business_job(u).tag = "Command" /\ ok
                        THEN children (+) SetToBag({u})
                        ELSE children
         /\ swallowed' = IF ok THEN swallowed ELSE swallowed + 1
         /\ IF ok THEN UNCHANGED <<bound, pPc, pRes, hPc, hRes, sPc, runRes>>
                  ELSE HandlerFails("business")
    /\ UNCHANGED <<clientVars, ipcVars, pStop, pCmd, cmdChan,
                   resChan, handlerState, live, issued, given, other, codec, spawned, nfired>>

\* business(ts) returns.  The executor has dropped the result of its call,
\* `_ = ...`, Ok or Err.  The process that cmd.spawn() of a Command job
\* started runs on, nobody waits for it
BusinessReturn(u) ==
    /\ sPc = "running"
    /\ BagIn(u, executing)
    /\ executing' = executing (-) SetToBag({u})
    /\ \E ok \in executor_results(business_job(u)) :
         /\ children' = IF business_job(u).tag = "Command" /\ ok
                        THEN children (+) SetToBag({u})
                        ELSE children
         /\ swallowed' = IF ok THEN swallowed ELSE swallowed + 1
    /\ UNCHANGED <<clientVars, ipcVars, bound, pPc, pStop, pCmd, pRes, hPc, hRes, cmdChan,
                   resChan, handlerState, sPc, runRes, live, issued, given, other, codec, spawned, nfired>>

\* a process that a Command job spawned exits
ChildExit(u) ==
    /\ BagIn(u, children)
    /\ children' = children (-) SetToBag({u})
    /\ UNCHANGED <<clientVars, ipcVars, bound, pPc, pStop, pCmd, pRes, hPc, hRes, cmdChan,
                   resChan, handlerState, sPc, runRes, live, issued, given, other, codec, spawned,
                   executing, nfired, swallowed>>

(***************************************************************************)
(* Clients: CommandClient of command.rs over a Req0 socket.                *)
(***************************************************************************)
\* CommandClient::new: the synchronous dial fails when nothing listens, and
\* then there is no CommandClient.  A dial that reaches the second service
\* makes c a client of that process ("elsewhere")
ClientNew(c) ==
    /\ cpc[c] = "new"
    /\ cpc' = [cpc EXCEPT ![c] = IF bound THEN "ready"
                                 ELSE IF other = "bound" THEN "elsewhere"
                                 ELSE "nodial"]
    /\ UNCHANGED <<creq, crep, nreq, cli, ipcVars, bound, pPc, pStop, pCmd, pRes, hPc, hRes,
                   cmdChan, resChan, handlerState, sPc, runRes, live, issued, given, other, codec, engineVars>>

\* cmd_request: self.0.send(&cmd.to_bytes()?)?
ClientSend(c, cmd) ==
    /\ cpc[c] = "ready"
    /\ nreq < MaxRequests
    /\ nreq' = nreq + 1
    /\ cpc' = [cpc EXCEPT ![c] = "waiting"]
    /\ creq' = [creq EXCEPT ![c] = Some(cmd)]
    /\ crep' = [crep EXCEPT ![c] = None]
    /\ ipcReq' = [ipcReq EXCEPT ![c] = CommandToBytes(cmd)]
    /\ UNCHANGED <<cli, ipcRep, repPipe, bound, pPc, pStop, pCmd, pRes, hPc, hRes,
                   cmdChan, resChan, handlerState, sPc, runRes, live, issued, given, other, codec, engineVars>>

\* a dialer that is not a CommandClient sends a frame of its own
RawSend(c, frame) ==
    /\ cpc[c] = "ready"
    /\ nreq < MaxRequests
    /\ nreq' = nreq + 1
    /\ cpc' = [cpc EXCEPT ![c] = "waiting"]
    /\ creq' = [creq EXCEPT ![c] = None]
    /\ crep' = [crep EXCEPT ![c] = None]
    /\ ipcReq' = [ipcReq EXCEPT ![c] = frame]
    /\ UNCHANGED <<cli, ipcRep, repPipe, bound, pPc, pStop, pCmd, pRes, hPc, hRes,
                   cmdChan, resChan, handlerState, sPc, runRes, live, issued, given, other, codec, engineVars>>

\* cmd_request: self.0.recv()?, CommandResponse::from_bytes(&msg)
ClientRecv(c) ==
    /\ cpc[c] = "waiting"
    /\ ipcRep[c] # <<>>
    /\ crep' = [crep EXCEPT ![c] = Some(ResponseFromBytes(ipcRep[c]))]
    /\ ipcRep' = [ipcRep EXCEPT ![c] = <<>>]
    /\ cpc' = [cpc EXCEPT ![c] = "ready"]
    /\ creq' = [creq EXCEPT ![c] = None]
    /\ UNCHANGED <<nreq, cli, ipcReq, repPipe, bound, pPc, pStop, pCmd, pRes, hPc, hRes,
                   cmdChan, resChan, handlerState, sPc, runRes, live, issued, given, other, codec, engineVars>>

\* the dial of a client process: CommandClient::new
Dial == IF bound THEN "ready" ELSE IF other = "bound" THEN "elsewhere" ELSE "nodial"

\* the command line `delete <id>` of a client binary, where its run is
DeleteCli(bin, text, pc) == Some([bin |-> bin, id |-> text, pc |-> pc])

\* mutant of MainDeleteRequest: the id text goes to the daemon unread
MainDeleteRequestUnchecked(c) ==
    /\ cpc[c] = "ready"
    /\ cli[c] # None
    /\ cli[c][1].bin = "main"
    /\ cli[c][1].pc = "dialed"
    /\ nreq < MaxRequests
    /\ nreq' = nreq + 1
    /\ cpc' = [cpc EXCEPT ![c] = "waiting"]
    /\ creq' = [creq EXCEPT ![c] = Some(new_delete_job(cli[c][1].id))]
    /\ crep' = [crep EXCEPT ![c] = None]
    /\ ipcReq' = [ipcReq EXCEPT ![c] = CommandToBytes(new_delete_job(cli[c][1].id))]
    /\ cli' = [cli EXCEPT ![c] = DeleteCli("main", cli[c][1].id, "sent")]
    /\ UNCHANGED <<ipcRep, repPipe, bound, pPc, pStop, pCmd, pRes, hPc, hRes,
                   cmdChan, resChan, handlerState, sPc, runRes, live, issued, given, other, codec, engineVars>>

\* run of main.rs, Command::Delete with the dial done:
\* Uuid::parse_str(&id).map_err(..)? and then cc.delete_job(id)?, the send of
\* its cmd_request.  With the error the process ends, its socket dropped
MainDeleteRequest(c) ==
    /\ cpc[c] = "ready"
    /\ cli[c] # None
    /\ cli[c][1].bin = "main"
    /\ cli[c][1].pc = "dialed"
    /\ IF UuidParseStr(cli[c][1].id).ok
       THEN /\ nreq < MaxRequests
            /\ nreq' = nreq + 1
            /\ cpc' = [cpc EXCEPT ![c] = "waiting"]
            /\ creq' = [creq EXCEPT ![c] = Some(new_delete_job(cli[c][1].id))]
            /\ crep' = [crep EXCEPT ![c] = None]
            /\ ipcReq' = [ipcReq EXCEPT ![c] = CommandToBytes(new_delete_job(cli[c][1].id))]
            /\ cli' = [cli EXCEPT ![c] = DeleteCli("main", cli[c][1].id, "sent")]
       ELSE /\ cpc' = [cpc EXCEPT ![c] = "exited"]
            /\ crep' = [crep EXCEPT ![c] = Some(Err(UuidParseStr(cli[c][1].id).err))]
            /\ cli' = [cli EXCEPT ![c] = DeleteCli("main", cli[c][1].id, "exited")]
            /\ UNCHANGED <<nreq, creq, ipcReq>>
    /\ UNCHANGED <<ipcRep, repPipe, bound, pPc, pStop, pCmd, pRes, hPc, hRes,
                   cmdChan, resChan, handlerState, sPc, runRes, live, issued, given, other, codec, engineVars>>

\* run of main.rs, Command::Delete: CommandClient::conn(&name, &path) comes
\* first; with its Err the response is ServiceNotRunning, whatever the id
MainDeleteConn(c, text) ==
    /\ cpc[c] = "new"
    /\ cli[c] = None
    /\ cpc' = [cpc EXCEPT ![c] = Dial]
    /\ cli' = [cli EXCEPT ![c] =
                DeleteCli("main", text, IF Dial = "nodial" THEN "exited" ELSE "dialed")]
    /\ UNCHANGED <<creq, crep, nreq, ipcVars, bound, pPc, pStop, pCmd, pRes, hPc, hRes,
                   cmdChan, resChan, handlerState, sPc, runRes, live, issued, given, other, codec, engineVars>>

\* run of bin/cronus.rs, Command::Delete: Uuid::parse_str(&id).map_err(|_|
\* "Invalid job id")? comes first, then CommandClient::new(&name, &path)?
CronusDeleteNew(c, text) ==
    /\ cpc[c] = "new"
    /\ cli[c] = None
    /\ IF ~UuidParseStr(text).ok
       THEN /\ cpc' = [cpc EXCEPT ![c] = "exited"]
            /\ crep' = [crep EXCEPT ![c] = Some(Err("Invalid job id"))]
            /\ cli' = [cli EXCEPT ![c] = DeleteCli("cronus", text, "exited")]
       ELSE /\ cpc' = [cpc EXCEPT ![c] = Dial]
            /\ crep' = [crep EXCEPT ![c] =
                        IF Dial = "nodial" THEN Some(Err("transport")) ELSE None]
            /\ cli' = [cli EXCEPT ![c] =
                        DeleteCli("cronus", text, IF Dial = "nodial" THEN "exited" ELSE "dialed")]
    /\ UNCHANGED <<creq, nreq, ipcVars, bound, pPc, pStop, pCmd, pRes, hPc, hRes,
                   cmdChan, resChan, handlerState, sPc, runRes, live, issued, given, other, codec, engineVars>>

\* run of bin/cronus.rs, Command::Delete: cc.delete_job(id)?, the send of its
\* cmd_request
CronusDeleteRequest(c) ==
    /\ cpc[c] = "ready"
    /\ cli[c] # None
    /\ cli[c][1].bin = "cronus"
    /\ cli[c][1].pc = "dialed"
    /\ nreq < MaxRequests
    /\ nreq' = nreq + 1
    /\ cpc' = [cpc EXCEPT ![c] = "waiting"]
    /\ creq' = [creq EXCEPT ![c] = Some(new_delete_job(cli[c][1].id))]
    /\ crep' = [crep EXCEPT ![c] = None]
    /\ ipcReq' = [ipcReq EXCEPT ![c] = CommandToBytes(new_delete_job(cli[c][1].id))]
    /\ cli' = [cli EXCEPT ![c] = DeleteCli("cronus", cli[c][1].id, "sent")]
    /\ UNCHANGED <<ipcRep, repPipe, bound, pPc, pStop, pCmd, pRes, hPc, hRes,
                   cmdChan, resChan, handlerState, sPc, runRes, live, issued, given, other, codec, engineVars>>

\* run of main.rs for stop, add, delete, list and status: the response it
\* prints.  CommandClient::conn failed: ServiceNotRunning; else what the
\* request of the CommandClient returned (None: nothing yet)
CliResponse(c) ==
    IF cpc[c] = "nodial" THEN Some(Ok(ServiceNotRunning))
    ELSE crep[c]

\* the second service process reaches NngIpcSocket::new_listen(cmd_path)? of
\* its parse_command: the listen fails when the path has a listener, the
\* parser returns the error and with it run
OtherListen ==
    /\ other = "absent"
    /\ other' = IF bound THEN "failed" ELSE "bound"
    /\ UNCHANGED <<clientVars, ipcVars, bound, pPc, pStop, pCmd, pRes, hPc, hRes, cmdChan,
                   resChan, handlerState, sPc, runRes, live, issued, given, codec, engineVars>>

\* the second service process, bound, returns from run: its socket is dropped
OtherReturn ==
    /\ other = "bound"
    /\ other' = "returned"
    /\ UNCHANGED <<clientVars, ipcVars, bound, pPc, pStop, pCmd, pRes, hPc, hRes, cmdChan,
                   resChan, handlerState, sPc, runRes, live, issued, given, codec, engineVars>>

Next ==
    \/ New
    \/ Run
    \/ Join
    \/ ParserListen
    \/ \E c \in Clients : ParserRecv(c)
    \/ ParserForward
    \/ ParserReply
    \/ HandleCommand
    \/ HandlerClosed
    \/ \E c \in Clients : ClientNew(c)
    \/ \E c \in Clients, cmd \in Commands : ClientSend(c, cmd)
    \/ \E c \in Clients, frame \in RawFrames : RawSend(c, frame)
    \/ \E c \in Clients : ClientRecv(c)

\* the control loop, the engine firing no job
Spec == Init /\ [][Next]_vars

\* the requests of the clients while the engine fires
FireCommands ==
    {new_add_job("0/1 * * * * *", JobRhaiScript("1"))}
    \cup {new_delete_job(UuidHyphenated[u]) : u \in 1..MaxIds}
    \cup {new_stop_service}

FireNext ==
    \/ New
    \/ Run
    \/ Join
    \/ ParserListen
    \/ \E c \in Clients : ParserRecv(c)
    \/ ParserForward
    \/ ParserReply
    \/ HandleCommand
    \/ HandlerClosed
    \/ \E c \in Clients : ClientNew(c)
    \/ \E c \in Clients, cmd \in FireCommands : ClientSend(c, cmd)
    \/ \E c \in Clients : ClientRecv(c)
    \/ \E u \in Uuids : EngineFire(u)
    \/ \E u \in Uuids : ClosureRun(u)
    \/ \E u \in Uuids : BusinessReturn(u)

\* the control loop and the engine firing the registered jobs
FireSpec == Init /\ [][FireNext]_vars

\* the number of times the engine fires a job of a service that only
\* registers jobs
MaxOverlap == 2

\* the requests of the clients of a service that only registers jobs
OverlapCommands == {new_add_job("0/1 * * * * *", JobCommand("/bin/true", <<>>))}

OverlapNext ==
    \/ New
    \/ Run
    \/ ParserListen
    \/ \E c \in Clients : ParserRecv(c)
    \/ ParserForward
    \/ ParserReply
    \/ HandleCommand
    \/ \E c \in Clients : ClientNew(c)
    \/ \E c \in Clients, cmd \in OverlapCommands : ClientSend(c, cmd)
    \/ \E c \in Clients : ClientRecv(c)
    \/ \E u \in Uuids : EngineFireUpTo(u, MaxOverlap)
    \/ \E u \in Uuids : ClosureRun(u)
    \/ \E u \in Uuids : BusinessReturn(u)
    \/ \E u \in Uuids : ChildExit(u)

\* a service that registers Command jobs, the engine firing them again while
\* earlier firings and the processes they spawned are in progress
OverlapSpec == Init /\ [][OverlapNext]_vars

\* the number of times the engine fires a job whose executor may fail
MaxFailFirings == 2

\* the requests of the clients of a service whose jobs fail each time they
\* run: the script ends in an error
FailCommands ==
    {new_add_job("0/1 * * * * *", JobRhaiScript("x")), new_stop_service}

FailNext ==
    \/ New
    \/ Run
    \/ Join
    \/ ParserListen
    \/ \E c \in Clients : ParserRecv(c)
    \/ ParserForward
    \/ ParserReply
    \/ HandleCommand
    \/ HandlerClosed
    \/ \E c \in Clients : ClientNew(c)
    \/ \E c \in Clients, cmd \in FailCommands : ClientSend(c, cmd)
    \/ \E c \in Clients : ClientRecv(c)
    \/ \E u \in Uuids : EngineFireUpTo(u, MaxFailFirings)
    \/ \E u \in Uuids : ClosureRun(u)
    \/ \E u \in Uuids : BusinessReturn(u)

\* a service that registers jobs whose executors fail, the engine firing them
FailSpec == Init /\ [][FailNext]_vars

\* the requests of the clients while a second service is started
BindCommands ==
    {new_add_job("0/1 * * * * *", JobRhaiScript("1")), new_list_jobs, new_stop_service}

BindNext ==
    \/ New
    \/ Run
    \/ Join
    \/ ParserListen
    \/ \E c \in Clients : ParserRecv(c)
    \/ ParserForward
    \/ ParserReply
    \/ HandleCommand
    \/ HandlerClosed
    \/ \E c \in Clients : ClientNew(c)
    \/ \E c \in Clients, cmd \in BindCommands : ClientSend(c, cmd)
    \/ \E c \in Clients : ClientRecv(c)
    \/ OtherListen
    \/ OtherReturn

\* two service processes started on one path, one of them with its control
\* loop and its clients
BindSpec == Init /\ [][BindNext]_vars

\* the requests of the clients that are no delete of a client binary
CliCommands == {new_add_job("0/1 * * * * *", JobRhaiScript("1")), new_stop_service}

\* the id texts of the command lines
CliIdTexts == {UuidHyphenated[1], "not-a-uuid"}

CliNext ==
    \/ New
    \/ Run
    \/ Join
    \/ ParserListen
    \/ \E c \in Clients : ParserRecv(c)
    \/ ParserForward
    \/ ParserReply
    \/ HandleCommand
    \/ HandlerClosed
    \/ \E c \in Clients : ClientNew(c)
    \/ \E c \in Clients, cmd \in CliCommands : cli[c] = None /\ ClientSend(c, cmd)
    \/ \E c \in Clients : ClientRecv(c)
    \/ \E c \in Clients, text \in CliIdTexts : MainDeleteConn(c, text)
    \/ \E c \in Clients : MainDeleteRequest(c)
    \/ \E c \in Clients, text \in CliIdTexts : CronusDeleteNew(c, text)
    \/ \E c \in Clients : CronusDeleteRequest(c)

\* the control loop, with clients that are processes of the two client
\* binaries running a delete
CliSpec == Init /\ [][CliNext]_vars

\* the requests of the clients of a service whose jobs differ in cron and in
\* Job value
InfoCommands ==
    {new_add_job("0/1 * * * * *", JobRhaiScript("1")),
     new_add_job("0 0 * * * *", JobCommand("/bin/true", <<>>)),
     new_list_jobs, new_delete_job(UuidHyphenated[1]), new_stop_service}

InfoNext ==
    \/ New
    \/ Run
    \/ Join
    \/ ParserListen
    \/ \E c \in Clients : ParserRecv(c)
    \/ ParserForward
    \/ ParserReply
    \/ HandleCommand
    \/ HandlerClosed
    \/ \E c \in Clients : ClientNew(c)
    \/ \E c \in Clients, cmd \in InfoCommands : ClientSend(c, cmd)
    \/ \E c \in Clients : ClientRecv(c)

\* the control loop with jobs of different crons and Job values
InfoSpec == Init /\ [][InfoNext]_vars

(***************************************************************************)
(* The codec on its own: a Command or a CommandResponse goes through       *)
(* to_bytes and the bytes through from_bytes.                              *)
(***************************************************************************)
\* paths that are not valid UTF-8 (a PathBuf of OsString bytes)
NonUtf8Paths == {"<ff>"}

\* Path::to_str, as serde's Serialize for Path uses it
PathToStr(p) == IF p \in NonUtf8Paths THEN None ELSE Some(p)

\* serde_json::to_vec fails on a Job whose path has no UTF-8 form
JobSerializes(job) ==
    /\ job.tag = "Command" => PathToStr(job.path) # None
    /\ job.tag = "RhaiScriptFile" => PathToStr(job.file) # None

\* Command::to_bytes with its CronusResult
CommandToBytesResult(cmd) ==
    IF cmd.tag = "AddJob" /\ ~JobSerializes(cmd.job)
    THEN Err("encode") ELSE Ok(CommandToBytes(cmd))

\* CommandResponse::to_bytes with its CronusResult
ResponseToBytesResult(res) ==
    IF res.tag = "JobList" /\ \E i \in 1..Len(res.list) : ~JobSerializes(res.list[i].job)
    THEN Err("encode") ELSE Ok(ResponseToBytes(res))

CodecJobs ==
    {JobCommand("/bin/true", <<>>), JobCommand("/bin/echo", <<"a">>),
     JobCommand("/bin/echo", <<"a", "b">>), JobCommand("<ff>", <<>>),
     JobRhaiScript("1"), JobRhaiScriptFile("/tmp/a.rhai")}

CodecCommands ==
    {new_add_job(cron, j) : cron \in {"0/1 * * * * *", "not-a-cron"}, j \in CodecJobs}
    \cup {new_delete_job(t) : t \in IdTexts}
    \cup {new_list_jobs, new_stop_service, new_ping_service}

CodecJobInfos ==
    {JobInfo(UuidHyphenated[1], "0/1 * * * * *", None, Some(1), JobRhaiScript("1")),
     JobInfo(UuidHyphenated[2], "0 0 * * * *", Some(3600), Some(7200),
             JobCommand("/bin/echo", <<"a", "b">>)),
     JobInfo("", "", None, None, JobRhaiScriptFile("/tmp/a.rhai"))}

\* the number of jobs of a JobList that goes through the codec
MaxListLen == 2

CodecJobLists == UNION {[1..n -> CodecJobInfos] : n \in 0..MaxListLen}

CodecResponses ==
    {JobAdded(UuidHyphenated[u]) : u \in 1..MaxIds}
    \cup {JobList(l) : l \in CodecJobLists}
    \cup {JobDeleted, ServiceRunning, ServiceStopped, ServiceNotRunning, Nothing}

CodecInit ==
    /\ codec \in {[kind |-> "cmd", val |-> c, bytes |-> None, back |-> None] :
                        c \in CodecCommands}
               \cup {[kind |-> "res", val |-> p, bytes |-> None, back |-> None] :
                        p \in CodecResponses}
    /\ InitControl

controlVars ==
    <<clientVars, ipcVars, bound, pPc, pStop, pCmd, pRes, hPc, hRes, cmdChan, resChan,
      handlerState, sPc, runRes, live, issued, given, other, engineVars>>

\* to_bytes
CodecToBytes ==
    /\ codec.kind # "none"
    /\ codec.bytes = None
    /\ codec' = [codec EXCEPT !.bytes =
                    Some(IF codec.kind = "cmd" THEN CommandToBytesResult(codec.val)
                         ELSE ResponseToBytesResult(codec.val))]
    /\ UNCHANGED controlVars

\* from_bytes of the bytes to_bytes gave
CodecFromBytes ==
    /\ codec.bytes # None
    /\ codec.bytes[1].ok
    /\ codec.back = None
    /\ codec' = [codec EXCEPT !.back =
                    Some(IF codec.kind = "cmd" THEN CommandFromBytes(codec.bytes[1].val)
                         ELSE ResponseFromBytes(codec.bytes[1].val))]
    /\ UNCHANGED controlVars

CodecNext == CodecToBytes \/ CodecFromBytes

CodecSpec == CodecInit /\ [][CodecNext]_vars

(***************************************************************************)
(* handle_cmd_list_job on its own: the handler lists a jobs map against a *)
(* metadata store that may lack the entry of a job of the map.            *)
(***************************************************************************)
\* the number of ListJobs the handler answers
MaxLists == 2

\* the jobs of the maps that are listed
ListJobValues == {JobCommand("/bin/true", <<>>), JobRhaiScript("1")}

\* the jobs maps over the identifiers of the model
ListJobsMaps == UNION {[d -> ListJobValues] : d \in SUBSET (1..MaxIds)}

\* the entries the engine may hold for id: of a job never fired, of a job
\* fired once
ListStoredData(id) ==
    {JobStoredData(id, cron) : cron \in ValidCrons}
    \cup {JobStoredDataFired(JobStoredData(id, cron)) : cron \in ValidCrons}

\* the metadata stores over the identifiers of the model
ListMetadataStores ==
    {md \in UNION {[d -> UNION {ListStoredData(id) : id \in d}] : d \in SUBSET (1..MaxIds)} :
        \A id \in DOMAIN md : md[id] \in ListStoredData(id)}

\* the handler of a running service at its receive, the parser waiting for
\* the response, with some jobs map and some metadata store
ListInit ==
    /\ codec = CodecIdle
    /\ cpc = [c \in Clients |-> "new"]
    /\ creq = [c \in Clients |-> None]
    /\ crep = [c \in Clients |-> None]
    /\ nreq = 0
    /\ cli = [c \in Clients |-> None]
    /\ ipcReq = [c \in Clients |-> <<>>]
    /\ ipcRep = [c \in Clients |-> <<>>]
    /\ repPipe = NoClient
    /\ bound = TRUE
    /\ pPc = "reply"
    /\ pStop = FALSE
    /\ pCmd = None
    /\ pRes = None
    /\ hPc = "recv"
    /\ hRes = None
    /\ cmdChan = <<>>
    /\ resChan = <<>>
    /\ jobs \in ListJobsMaps
    /\ engine = "started"
    /\ metadata \in ListMetadataStores
    /\ nextUuid = MaxIds + 1
    /\ sPc = "running"
    /\ runRes = None
    /\ live = {}
    /\ issued = {}
    /\ given = EmptyMap
    /\ other = "absent"
    /\ spawned = EmptyBag
    /\ executing = EmptyBag
    /\ nfired = 0
    /\ children = EmptyBag
    /\ swallowed = 0

listFrame ==
    <<clientVars, ipcVars, bound, pPc, pStop, pCmd, pRes, hPc, hRes, cmdChan,
      sPc, runRes, live, issued, given, other, engineVars, codec>>

\* handle_cmd_list_job and the send of its response
ListApply ==
    /\ Len(resChan) < MaxLists
    /\ \E order \in Orders(DOMAIN jobs) :
         LET r == handle_cmd_list_job(jobs, metadata, engine, nextUuid, order)
         IN  /\ resChan' = Append(resChan, r.res.val)
             /\ jobs' = r.jobs
             /\ metadata' = r.metadata
             /\ engine' = r.engine
             /\ nextUuid' = r.nextUuid
    /\ UNCHANGED listFrame

\* the engine stores the entry of a job of the map that it lacked
MetadataReady(u) ==
    /\ u \in DOMAIN jobs \ DOMAIN metadata
    /\ \E cron \in ValidCrons : metadata' = scheduler_add(metadata, u, cron)
    /\ UNCHANGED <<jobs, engine, nextUuid, resChan>>
    /\ UNCHANGED listFrame

ListNext == ListApply \/ \E u \in Uuids : MetadataReady(u)

ListSpec == ListInit /\ [][ListNext]_vars

\* the runtime keeps polling the two futures and the join
LiveSpec == Spec /\ WF_vars(ParserForward) /\ WF_vars(ParserReply)
                 /\ WF_vars(HandleCommand) /\ WF_vars(HandlerClosed) /\ WF_vars(Join)

(***************************************************************************)
(* Properties.                                                             *)
(***************************************************************************)
\* the ids of a JobList
ListIds(list) == {list[i].id : i \in 1..Len(list)}

\* this step is the handler taking a command of the given variant
Handles(tag) ==
    /\ sPc = "running"
    /\ hPc = "recv"
    /\ cmdChan # <<>>
    /\ Head(cmdChan).tag = tag
    /\ cmdChan' = Tail(cmdChan)

\* the service is up: both tasks in their loops, the engine started, the
\* endpoint bound
Running ==
    /\ sPc = "running"
    /\ pPc \in {"recv", "forward", "reply"}
    /\ hPc = "recv"
    /\ engine = "started"
    /\ bound
    /\ runRes = None

\* C1: every JobList response lists exactly the ids that JobAdded responses
\* announced and that no later DeleteJob answered with JobDeleted named: none
\* missing, none extra, none twice.
C1_ListJobsExact ==
    \A i \in 1..Len(resChan) :
        resChan[i].tag = "JobList" =>
            /\ ListIds(resChan[i].list) = live
            /\ Len(resChan[i].list) = Cardinality(live)

\* C1 witness: a JobList response that lists two added jobs
C1_Witness ==
    /\ resChan # <<>>
    /\ Head(resChan).tag = "JobList"
    /\ Len(Head(resChan).list) = 2
    /\ Cardinality(live) = 2

\* C2: the id of every JobAdded response is well formed, in the hyphenated
\* form, and a DeleteJob that names an id announced by JobAdded and still live
\* is answered with JobDeleted and takes exactly that id out of the jobs map.
C2_AddedIdDeletable ==
    /\ [](\A i \in 1..Len(resChan) :
            resChan[i].tag = "JobAdded" =>
                /\ UuidParseStr(resChan[i].id).ok
                /\ UuidToString(UuidParseStr(resChan[i].id).val) = resChan[i].id)
    /\ [][(Handles("DeleteJob") /\ Head(cmdChan).id \in live) =>
            LET id == UuidParseStr(Head(cmdChan).id).val
            IN  /\ id \in DOMAIN jobs
                /\ resChan' = Append(resChan, JobDeleted)
                /\ DOMAIN jobs' = DOMAIN jobs \ {id}
                /\ \A k \in DOMAIN jobs' : jobs'[k] = jobs[k]
                /\ Running']_vars

\* C2 witness: JobDeleted answers the DeleteJob of the one id added so far,
\* with another job still in the map
C2_Witness ==
    /\ resChan # <<>>
    /\ Head(resChan) = JobDeleted
    /\ nextUuid = 3
    /\ Cardinality(live) = 1
    /\ Cardinality(DOMAIN jobs) = 1

\* C3: an AddJob whose cron expression does not parse leaves the jobs map and
\* the engine's entries as they were and produces no response.
C3_BadCronNoPartialState ==
    [][(Handles("AddJob") /\ ~with_schedule(Head(cmdChan).cron).ok) =>
            /\ jobs' = jobs
            /\ metadata' = metadata
            /\ resChan' = resChan
            /\ live' = live
            /\ hRes' = Some(Err("badcron"))]_vars

\* C3 witness: the handler failed on a bad cron with a job registered
C3_Witness ==
    /\ hRes = Some(Err("badcron"))
    /\ DOMAIN jobs # {}
    /\ DOMAIN metadata = DOMAIN jobs

\* C4: after an AddJob with an invalid cron expression the service is still
\* running, with the jobs it had, so that the next ListJobs is answered.
C4_BadCronKeepsRunning ==
    [][(Handles("AddJob") /\ ~with_schedule(Head(cmdChan).cron).ok) =>
            /\ Running'
            /\ jobs' = jobs
            /\ metadata' = metadata]_vars

\* C5: the handler answers every PingService with ServiceRunning and keeps
\* running.
C5_PingAnswered ==
    [][Handles("PingService") =>
            /\ resChan' = Append(resChan, ServiceRunning)
            /\ Running']_vars

\* C6: handling PingService or ListJobs leaves the jobs map, the engine's
\* entries and the running service as they were.
C6_ReadOnly ==
    [][(Handles("PingService") \/ Handles("ListJobs")) =>
            /\ jobs' = jobs
            /\ metadata' = metadata
            /\ engine' = engine
            /\ Running']_vars

\* the service has terminated: both tasks returned, run returned, the
\* endpoint is released
Terminated ==
    /\ pPc = "done"
    /\ hPc = "done"
    /\ runRes = Some(Ok(ServiceStopped))
    /\ sPc = "returned"
    /\ ~bound

\* C7: once the parser has received a StopService request the service
\* terminates, and from then on the path is not bound and every dial fails.
C7_StopTerminates ==
    /\ (pCmd = Some(new_stop_service)) ~> Terminated
    /\ [](runRes # None => ~bound)
    /\ [][\A c \in Clients :
            (runRes # None /\ cpc[c] = "new" /\ cpc'[c] # "new") => cpc'[c] = "nodial"]_vars

\* C7 witness: the service terminated after a StopService and a client
\* found the path not dialable
C7_Witness ==
    /\ Terminated
    /\ engine = "shutdown"
    /\ \E c \in Clients : cpc[c] = "nodial"

\* C8: the handler returns only after ServiceStopped went to the reply
\* channel and was taken from it, and the step in which the parser returns is
\* the one that sends the ServiceStopped frame to the client that asked for
\* the stop; run never returns ServiceStopped with the reply still queued.
C8_ShutdownOrdering ==
    /\ [][Handles("StopService") =>
            /\ resChan' = Append(resChan, ServiceStopped)
            /\ hPc' = "recv"]_vars
    /\ [][(hPc = "recv" /\ hPc' = "done") =>
            /\ engine = "shutdown"
            /\ pPc = "done"
            /\ resChan = <<>>]_vars
    /\ [][(pPc # "done" /\ pPc' = "done") =>
            /\ repPipe \in Clients
            /\ creq[repPipe] = Some(new_stop_service)
            /\ resChan = <<ServiceStopped>>
            /\ ipcRep'[repPipe] = ResponseToBytes(ServiceStopped)
            /\ hPc = "recv"]_vars
    /\ [](runRes = Some(Ok(ServiceStopped)) => resChan = <<>> /\ pPc = "done" /\ hPc = "done")

\* C8 witness: the parser has returned, the ServiceStopped frame is in
\* flight to the client, the handler has not returned yet
C8_Witness ==
    /\ pPc = "done"
    /\ hPc = "recv"
    /\ \E c \in Clients :
        /\ creq[c] = Some(new_stop_service)
        /\ ipcRep[c] = ResponseToBytes(ServiceStopped)

\* C9: run returns ServiceStopped only when both tasks have returned Ok, and
\* returns an error exactly when a task failed, the error being that task's.
C9_JoinBoth ==
    /\ runRes = Some(Ok(ServiceStopped)) => (pRes = Some(Ok(Unit)) /\ hRes = Some(Ok(Unit)))
    /\ (runRes # None /\ ~runRes[1].ok) <=>
            \/ (pRes # None /\ ~pRes[1].ok)
            \/ (hRes # None /\ ~hRes[1].ok)
    /\ (pRes # None /\ ~pRes[1].ok) => runRes = Some(Err(pRes[1].err))
    /\ (hRes # None /\ ~hRes[1].ok) => runRes = Some(Err(hRes[1].err))
    /\ (runRes # None /\ runRes[1].ok) => runRes[1].val = ServiceStopped

\* C9 witness: the parser has returned Ok, the handler has not, run has not
\* returned
C9_Witness ==
    /\ pRes = Some(Ok(Unit))
    /\ hRes = None
    /\ runRes = None

\* C10: the listener receives a request only when it has none unanswered and
\* sends a frame only to answer the request it holds; a client sends a request
\* only when it is not waiting for a reply.
C10_Alternation ==
    /\ [][(\E c \in Clients : ipcReq[c] # <<>> /\ ipcReq'[c] = <<>>) =>
            repPipe = NoClient /\ repPipe' \in Clients]_vars
    /\ [][(\E c \in Clients : ipcRep'[c] # <<>> /\ ipcRep[c] = <<>>) =>
            /\ repPipe \in Clients
            /\ repPipe' = NoClient
            /\ \A c \in Clients : ipcRep'[c] # ipcRep[c] => c = repPipe]_vars
    /\ [][\A c \in Clients : (ipcReq'[c] # <<>> /\ ipcReq'[c] # ipcReq[c]) =>
            /\ cpc[c] = "ready"
            /\ ipcReq[c] = <<>>
            /\ ipcRep[c] = <<>>
            /\ repPipe # c]_vars

\* C10 witness: the listener holds the request of one client while the
\* request of the other waits to be received
C10_Witness ==
    /\ pPc = "reply"
    /\ repPipe \in Clients
    /\ \E c \in Clients : c # repPipe /\ ipcReq[c] # <<>>

\* the response variant that answers a command variant
ReplyTag(tag) ==
    CASE tag = "AddJob" -> "JobAdded"
      [] tag = "ListJobs" -> "JobList"
      [] tag = "DeleteJob" -> "JobDeleted"
      [] tag = "StopService" -> "ServiceStopped"
      [] tag = "PingService" -> "ServiceRunning"

\* C11: a request the handler handles successfully gets exactly one response,
\* of the variant that answers it, produced while the listener holds the
\* request of the client that sent it; the listener sends that response, and
\* no other frame, to that client, and the client's cmd_request returns it.
C11_OneMatchingReply ==
    /\ [][(hPc = "recv" /\ cmdChan # <<>> /\ cmdChan' = Tail(cmdChan) /\ hPc' = "recv") =>
            /\ repPipe \in Clients
            /\ creq[repPipe] = Some(Head(cmdChan))
            /\ resChan = <<>>
            /\ Len(resChan') = 1
            /\ resChan'[1].tag = ReplyTag(Head(cmdChan).tag)]_vars
    /\ [][\A c \in Clients : (ipcRep'[c] # ipcRep[c] /\ ipcRep'[c] # <<>>) =>
            /\ c = repPipe
            /\ ipcRep[c] = <<>>
            /\ Len(resChan) = 1
            /\ ipcRep'[c] = ResponseToBytes(resChan[1])
            /\ resChan' = <<>>
            /\ repPipe' = NoClient
            /\ creq[c] # None
            /\ resChan[1].tag = ReplyTag(creq[c][1].tag)]_vars
    /\ [][\A c \in Clients : (cpc[c] = "waiting" /\ cpc'[c] = "ready") =>
            /\ creq[c] # None
            /\ crep'[c] # None
            /\ crep'[c][1].ok
            /\ ResponseToBytes(crep'[c][1].val) = ipcRep[c]
            /\ crep'[c][1].val.tag = ReplyTag(creq[c][1].tag)]_vars

\* C11 witness: one client has its JobAdded while the ListJobs of the other
\* client is still unanswered
C11_Witness ==
    \E c, d \in Clients :
        /\ c # d
        /\ crep[c] # None
        /\ crep[c][1].ok
        /\ crep[c][1].val.tag = "JobAdded"
        /\ cpc[d] = "waiting"
        /\ creq[d] = Some(new_list_jobs)

\* the id texts of the jobs map
JobIdTexts(js) == {UuidToString(u) : u \in DOMAIN js}

\* C12: the handler takes one request at a time, the one the listener
\* received last and is waiting on; the listener receives the next request
\* only after the response to the previous one has left the reply channel; and
\* the jobs map always holds exactly the jobs the responses produced so far
\* describe (added and not deleted), so a client that has its reply finds the
\* change applied whatever request is handled next.
C12_SerialAndVisible ==
    /\ [](Len(cmdChan) + Len(resChan) <= 1)
    /\ [](JobIdTexts(jobs) = live)
    /\ [](\A c \in Clients :
            (crep[c] # None /\ crep[c][1].ok /\ crep[c][1].val.tag = "JobAdded"
                /\ crep[c][1].val.id \in live) =>
                UuidParseStr(crep[c][1].val.id).val \in DOMAIN jobs \cap DOMAIN metadata)
    /\ [][(cmdChan # <<>> /\ cmdChan' = Tail(cmdChan)) =>
            /\ pPc = "reply"
            /\ pCmd = None
            /\ repPipe \in Clients
            /\ creq[repPipe] = Some(Head(cmdChan))]_vars
    /\ [][(\E c \in Clients : ipcReq[c] # <<>> /\ ipcReq'[c] = <<>>) =>
            /\ pPc = "recv"
            /\ cmdChan = <<>>
            /\ resChan = <<>>]_vars

\* C12 witness: a client holds the JobAdded of a job that is in the map while
\* the handler has the other client's request before it
C12_Witness ==
    \E c, d \in Clients :
        /\ c # d
        /\ crep[c] # None
        /\ crep[c][1].ok
        /\ crep[c][1].val.tag = "JobAdded"
        /\ crep[c][1].val.id \in live
        /\ cmdChan # <<>>
        /\ creq[d] = Some(Head(cmdChan))

\* the JobAdded ids a client has: in the reply it holds or in the reply frame
\* in flight to it
AddedIds(c) ==
    {t \in issued :
        \/ crep[c] = Some(Ok(JobAdded(t)))
        \/ ipcRep[c] = ResponseToBytes(JobAdded(t))}

\* C13: whatever the interleaving of the AddJob requests of two clients, the
\* ids of their JobAdded replies differ, both jobs are in the jobs map and the
\* engine unless deleted since, and a JobList produced afterwards has the id
\* of every such reply.
C13_ConcurrentAdds ==
    /\ \A c, d \in Clients : c # d => AddedIds(c) \cap AddedIds(d) = {}
    /\ \A c \in Clients :
        /\ crep[c] # None /\ crep[c][1].ok /\ crep[c][1].val.tag = "JobAdded" =>
                crep[c][1].val.id \in issued
        /\ \A t \in AddedIds(c) \cap live :
                /\ UuidParseStr(t).val \in DOMAIN jobs \cap DOMAIN metadata
                /\ \A i \in 1..Len(resChan) :
                        resChan[i].tag = "JobList" => t \in ListIds(resChan[i].list)
    /\ \A c \in Clients :
        (cpc[c] = "waiting" /\ creq[c] # None /\ creq[c][1].tag = "AddJob"
            /\ ipcRep[c] # <<>>) => AddedIds(c) # {}

\* C13 witness: two AddJob were answered, one client still holds its JobAdded
\* and the JobList for the other client has both jobs
C13_Witness ==
    /\ Cardinality(issued) = 2
    /\ resChan # <<>>
    /\ Head(resChan).tag = "JobList"
    /\ ListIds(Head(resChan).list) = issued
    /\ \E c \in Clients : AddedIds(c) # {} /\ cpc[c] = "ready"

\* C14: the id of a JobAdded response differs from the id of every JobAdded
\* response produced before it in this run of the service, also when the
\* earlier job has been deleted; the ids of the jobs map are ids so announced.
C14_IdNeverReused ==
    /\ [][\A i \in 1..Len(resChan') :
            (resChan'[i].tag = "JobAdded" /\ resChan' # resChan) =>
                /\ resChan'[i].id \notin issued
                /\ issued' = issued \cup {resChan'[i].id}]_vars
    /\ [](live \subseteq issued /\ JobIdTexts(jobs) \subseteq issued)
    /\ [][issued \subseteq issued']_vars

\* C14 witness: a JobAdded response for an AddJob that came after the delete
\* of the job added first
C14_Witness ==
    /\ resChan # <<>>
    /\ Head(resChan).tag = "JobAdded"
    /\ Cardinality(issued) = 2
    /\ live = {Head(resChan).id}

C16_NoFiringAfterDelete ==
    /\ [][\A u \in Uuids :
            (CopiesIn(u, executing') > CopiesIn(u, executing)
                \/ CopiesIn(u, spawned') > CopiesIn(u, spawned)) =>
                /\ UuidToString(u) \in live
                /\ u \in DOMAIN metadata]_vars
    /\ [][Handles("DeleteJob") => (executing' = executing /\ spawned' = spawned)]_vars
    /\ [][\A u \in Uuids :
            CopiesIn(u, executing') < CopiesIn(u, executing) =>
                /\ CopiesIn(u, executing') = CopiesIn(u, executing) - 1
                /\ UNCHANGED <<handlerState, hPc, pPc, spawned>>]_vars

\* C16 witness: a client has JobDeleted for an id while a call of business
\* for that id, started before, is still in progress
C16_Witness ==
    \E u \in Uuids, c \in Clients :
        /\ UuidToString(u) \in issued \ live
        /\ crep[c] = Some(Ok(JobDeleted))
        /\ BagIn(u, executing)

\* C17: for every Command, and every response of the reply vocabulary
\* (JobAdded, JobList, JobDeleted, ServiceRunning, ServiceStopped,
\* ServiceNotRunning, Nothing), from_bytes of the bytes that to_bytes gives is
\* the value again.
C17_RoundTrip == codec.back # None => codec.back[1] = Ok(codec.val)

\* the round trip of the Commands and of the five variants of
\* CommandResponse, where to_bytes gives bytes (it gives none for a Job whose
\* path is not UTF-8)
C17_RoundTripOfTheCode ==
    (/\ codec.back # None
     /\ codec.val.tag \notin {"ServiceNotRunning", "Nothing"})
        => codec.back[1] = Ok(codec.val)

\* the dial part of C18: a client started with the path not bound has
\* ServiceNotRunning, a client started with it bound has a CommandClient
C18_DialPart ==
    [][\A c \in Clients : (cpc[c] = "new" /\ cpc'[c] # "new") =>
            IF bound THEN cpc'[c] = "ready" /\ CliResponse(c)' = None
            ELSE CliResponse(c)' = Some(Ok(ServiceNotRunning))]_vars

\* C18: a client command issued with no daemon bound to the path yields
\* ServiceNotRunning, not an error; no daemon is bound once a stop has
\* returned ServiceStopped; and a status issued with a daemon bound yields
\* ServiceRunning.
C18_ClientSeesServiceState ==
    /\ C18_DialPart
    /\ [](\A c \in Clients : CliResponse(c) = Some(Ok(ServiceStopped)) => ~bound)
    /\ [](\A c \in Clients : CliResponse(c) = Some(Ok(ServiceRunning)) => cpc[c] # "nodial")
    /\ [][\A c \in Clients :
            (creq[c] = Some(new_ping_service) /\ repPipe = c /\ Handles("PingService")) =>
                /\ resChan' = Append(resChan, ServiceRunning)
                /\ bound']_vars

\* this step is the parser receiving a frame that is not the encoding of a
\* Command
ReceivesBadFrame ==
    /\ pPc = "recv"
    /\ \E c \in Clients :
        /\ ipcReq[c] # <<>>
        /\ ipcReq'[c] = <<>>
        /\ ~CommandFromBytes(ipcReq[c]).ok

\* C19: when the parser receives a frame that does not decode as a Command,
\* nothing goes to the request channel, no reply frame is sent, the jobs map
\* and the engine's entries stay as they are, the parser task ends with the
\* decode error and run returns it; nothing is sent or changed afterwards.
C19_DecodeErrorFatal ==
    /\ [][ReceivesBadFrame =>
            /\ cmdChan' = cmdChan
            /\ resChan' = resChan
            /\ ipcRep' = ipcRep
            /\ jobs' = jobs
            /\ metadata' = metadata
            /\ pPc' = "failed"
            /\ pRes' = Some(Err("decode"))
            /\ runRes' = Some(Err("decode"))
            /\ sPc' = "returned"
            /\ ~bound']_vars
    /\ [][runRes = Some(Err("decode")) =>
            /\ UNCHANGED <<cmdChan, resChan, jobs, metadata, runRes, pPc, hPc>>
            /\ \A c \in Clients : ipcRep'[c] # ipcRep[c] => ipcRep'[c] = <<>>]_vars

\* C19 witness: run returned the decode error with a job registered, the
\* sender of the frame still waiting
C19_Witness ==
    /\ runRes = Some(Err("decode"))
    /\ DOMAIN jobs # {}
    /\ \E c \in Clients : cpc[c] = "waiting" /\ creq[c] = None /\ repPipe = c

\* C20: a DeleteJob whose id text is no well-formed identifier fails the
\* handler with the bad-id error before the engine or the jobs map is
\* touched: no response is produced, both are as they were.
C20_BadIdNoDeregistration ==
    [][(Handles("DeleteJob") /\ Head(cmdChan).id \notin
            ({UuidHyphenated[u] : u \in Uuids} \cup {UuidSimple[u] : u \in Uuids})) =>
            /\ jobs' = jobs
            /\ metadata' = metadata
            /\ engine' = engine
            /\ resChan' = resChan
            /\ live' = live
            /\ hPc' = "failed"
            /\ hRes' = Some(Err("badid"))]_vars

\* C20 witness: the handler failed on a malformed id with a job registered
C20_Witness ==
    /\ hRes = Some(Err("badid"))
    /\ DOMAIN jobs # {}
    /\ DOMAIN metadata = DOMAIN jobs
    /\ resChan = <<>>

\* this step is the handler taking a DeleteJob whose id text is an identifier
\* that is not in the jobs map
HandlesDeleteOfAbsent ==
    /\ Handles("DeleteJob")
    /\ UuidParseStr(Head(cmdChan).id).ok
    /\ UuidParseStr(Head(cmdChan).id).val \notin DOMAIN jobs

\* the part of C21 that handle_cmd_delete_job decides: a DeleteJob with a
\* well-formed id that is not in the jobs map leaves the jobs map and the
\* engine's entries as they are, whether scheduler.remove answers Ok or Err;
\* when it answers Err the handler fails with that error and no response is
\* produced.
C21_AbsentIdJobSetUnchanged ==
    [][HandlesDeleteOfAbsent =>
            /\ jobs' = jobs
            /\ metadata' = metadata
            /\ live' = live
            /\ \/ resChan' = Append(resChan, JobDeleted)
               \/ resChan' = resChan /\ hRes' = Some(Err("unknown"))]_vars

\* the error the handler fails with on cmd: the cron parse error of AddJob,
\* the identifier parse error of DeleteJob, the deregister error of DeleteJob
HandlerErrorOf(cmd) ==
    IF cmd.tag = "AddJob" THEN "badcron"
    ELSE IF UuidParseStr(cmd.id).ok THEN "unknown" ELSE "badid"

\* C22: when the handling of a request has failed in the handler (cron parse
\* error, identifier parse error, deregister error), the handler task has
\* returned that error, run has returned the same error, the parser was
\* dropped waiting for the response, and no response and no reply frame exist
\* for the failing request: its sender waits without a frame on its way.
C22_HandlerErrorEscalates ==
    hPc = "failed" =>
        /\ hRes # None
        /\ ~hRes[1].ok
        /\ runRes = hRes
        /\ sPc = "returned"
        /\ pPc = "dropped"
        /\ resChan = <<>>
        /\ repPipe \in Clients
        /\ ipcRep[repPipe] = <<>>
        /\ cpc[repPipe] = "waiting"
        /\ creq[repPipe] # None
        /\ creq[repPipe][1].tag \in {"AddJob", "DeleteJob"} =>
                hRes[1].err = HandlerErrorOf(creq[repPipe][1])

\* C22 witness: the handler failed with the deregister error of the engine,
\* a job registered
C22_Witness ==
    /\ hPc = "failed"
    /\ hRes = Some(Err("unknown"))
    /\ runRes = Some(Err("unknown"))
    /\ DOMAIN jobs # {}

\* the part of C23 that handle_cmd_stop_service decides: scheduler.shutdown
\* has returned when ServiceStopped is put on the reply channel, and from
\* then on the engine fires no job: no closure is spawned while a
\* ServiceStopped response exists or after a client has received it.
C23_ShutdownBeforeReply ==
    /\ [][resChan' = Append(resChan, ServiceStopped) =>
            (Handles("StopService") /\ engine = "started" /\ engine' = "shutdown")]_vars
    /\ [][engine = "shutdown" => (engine' = "shutdown" /\ nfired' = nfired
            /\ \A u \in Uuids : CopiesIn(u, spawned') <= CopiesIn(u, spawned))]_vars
    /\ [](\A c \in Clients :
            (crep[c] = Some(Ok(ServiceStopped)) \/ ipcRep[c] = ResponseToBytes(ServiceStopped))
                => engine = "shutdown")

\* this step is a step of the handler task: it takes a command from the
\* request channel or leaves its loop
HandlerStep ==
    \/ hPc' # hPc
    \/ cmdChan # <<>> /\ cmdChan' = Tail(cmdChan)

\* C24: the step that handles StopService puts ServiceStopped on the reply
\* channel with the request channel empty and the handler back at its
\* receive; the next step of the handler is its return of Ok(()), which
\* comes, and between the two it takes no command and changes nothing of its
\* state.
C24_HandlerReturnsAfterStop ==
    /\ [][resChan' = Append(resChan, ServiceStopped) =>
            (Handles("StopService") /\ hPc' = "recv" /\ cmdChan' = <<>>)]_vars
    /\ [][(engine = "shutdown" /\ HandlerStep) =>
            /\ hPc = "recv"
            /\ hPc' = "done"
            /\ hRes' = Some(Ok(Unit))
            /\ UNCHANGED <<cmdChan, resChan, handlerState>>]_vars
    /\ [][engine = "shutdown" => UNCHANGED <<cmdChan, handlerState, live, issued>>]_vars
    /\ (engine = "shutdown") ~> (hRes = Some(Ok(Unit)))

\* C24 witness: the handler has returned Ok(()) after a StopService, a job
\* still in its map
C24_Witness ==
    /\ hPc = "done"
    /\ hRes = Some(Ok(Unit))
    /\ engine = "shutdown"
    /\ DOMAIN jobs # {}

\* the state of the service: Starting until run polls the two tasks, Running
\* while the engine is started, Stopping once handle_cmd_stop_service has shut
\* the engine down, Stopped when run has returned ServiceStopped; Failed is
\* the exit of run with the error of a task
ServiceState ==
    IF sPc \in {"init", "constructed"} THEN "Starting"
    ELSE IF sPc = "running" THEN (IF engine = "shutdown" THEN "Stopping" ELSE "Running")
    ELSE IF runRes = Some(Ok(ServiceStopped)) THEN "Stopped"
    ELSE "Failed"

StateRank(st) ==
    CASE st = "Starting" -> 0
      [] st = "Running" -> 1
      [] st = "Stopping" -> 2
      [] st = "Stopped" -> 3
      [] OTHER -> 4

\* C25: a step of the service keeps its state or moves it to the next one of
\* Starting, Running, Stopping, Stopped (the only other move is the exit of
\* a Running service with the error of a task); Stopped is terminal; the step
\* from Running to Stopping is the handling of StopService; the step from
\* Stopping to Stopped is taken with both tasks returned, and the parser
\* returns in the step that sends the final reply to the client that asked
\* for the stop.
C25_ServiceStateForward ==
    /\ [][\/ ServiceState' = ServiceState
          \/ StateRank(ServiceState') = StateRank(ServiceState) + 1 /\ ServiceState' # "Failed"
          \/ ServiceState = "Running" /\ ServiceState' = "Failed"]_vars
    /\ [][ServiceState = "Stopped" => UNCHANGED <<sPc, runRes, engine, pPc, hPc, pRes, hRes,
                                                   jobs, metadata, bound, resChan, cmdChan>>]_vars
    /\ [][(ServiceState = "Running" /\ ServiceState' = "Stopping") =>
            (Handles("StopService") /\ resChan' = Append(resChan, ServiceStopped))]_vars
    /\ [][(ServiceState = "Stopping" /\ ServiceState' = "Stopped") =>
            /\ pPc = "done" /\ pRes = Some(Ok(Unit))
            /\ hPc = "done" /\ hRes = Some(Ok(Unit))
            /\ resChan = <<>>]_vars
    /\ [][(pPc # "done" /\ pPc' = "done") =>
            /\ ServiceState = "Stopping"
            /\ \E c \in Clients :
                 /\ creq[c] = Some(new_stop_service)
                 /\ ipcRep[c] = <<>>
                 /\ ipcRep'[c] = ResponseToBytes(ServiceStopped)]_vars

\* C25 witness: the service is Stopped, the client that asked for the stop
\* has the final reply, a job was registered
C25_Witness ==
    /\ ServiceState = "Stopped"
    /\ \E c \in Clients : crep[c] = Some(Ok(ServiceStopped))
    /\ DOMAIN jobs # {}

\* C26: a step that changes the jobs map is the handler handling an AddJob,
\* and then one entry (a new id with the job of the request) is added, or the
\* handler handling a DeleteJob, and then one entry is taken out; the other
\* entries stay.  Every step of the parser, of a firing (the engine spawning
\* a closure, the closure, business returning), of a client, and the handling
\* of every other request leave the jobs map as it is.
C26_JobsChangedByAddAndDelete ==
    /\ [][jobs' # jobs =>
            \/ /\ Handles("AddJob")
               /\ \E id \in Uuids \ DOMAIN jobs :
                    /\ DOMAIN jobs' = DOMAIN jobs \cup {id}
                    /\ jobs'[id] = Head(cmdChan).job
                    /\ \A x \in DOMAIN jobs : jobs'[x] = jobs[x]
            \/ /\ Handles("DeleteJob")
               /\ \E id \in DOMAIN jobs :
                    /\ UuidParseStr(Head(cmdChan).id) = Ok(id)
                    /\ DOMAIN jobs' = DOMAIN jobs \ {id}
                    /\ \A x \in DOMAIN jobs' : jobs'[x] = jobs[x]]_vars
    /\ [][(pPc' # pPc \/ spawned' # spawned \/ executing' # executing \/ nfired' # nfired
            \/ cpc' # cpc) => jobs' = jobs]_vars

\* C26 witness: a job was fired and its call of business is in progress, and
\* of two jobs added one was deleted since
C26_Witness ==
    /\ nfired > 0
    /\ executing # EmptyBag
    /\ Cardinality(issued) = 2
    /\ Cardinality(DOMAIN jobs) = 1

\* the id texts of the jobs of the map that have an entry in the engine
ListableIds == {UuidToString(u) : u \in DOMAIN jobs \cap DOMAIN metadata}

AsGiven(ji) ==
    /\ ji.id \in DOMAIN given
    /\ ji.cron = given[ji.id].cron
    /\ ji.job = given[ji.id].job

\* C28: every JobList response on the reply channel lists the jobs added and
\* not deleted, each JobInfo with the id text of its JobAdded response and
\* with the cron string and the Job value of the AddJob that created it; and
\* so does every JobList a client has received, for the jobs it lists.
C28_RegisteredJobImmutable ==
    /\ \A i \in 1..Len(resChan) :
         resChan[i].tag = "JobList" =>
            /\ ListIds(resChan[i].list) = live
            /\ \A k \in 1..Len(resChan[i].list) : AsGiven(resChan[i].list[k])
    /\ \A c \in Clients :
         (crep[c] # None /\ crep[c][1].ok /\ crep[c][1].val.tag = "JobList") =>
            \A k \in 1..Len(crep[c][1].val.list) : AsGiven(crep[c][1].val.list[k])
    /\ \A u \in DOMAIN jobs :
         /\ UuidToString(u) \in DOMAIN given
         /\ jobs[u] = given[UuidToString(u)].job
         /\ u \in DOMAIN metadata
         /\ metadata[u].schedule = Some(given[UuidToString(u)].cron)

\* C28 witness: a client has received a JobList of two jobs that differ in
\* cron and in Job value
C28_Witness ==
    \E c \in Clients :
        /\ crep[c] # None /\ crep[c][1].ok /\ crep[c][1].val.tag = "JobList"
        /\ Len(crep[c][1].val.list) = 2
        /\ crep[c][1].val.list[1].cron # crep[c][1].val.list[2].cron
        /\ crep[c][1].val.list[1].job # crep[c][1].val.list[2].job

\* C29: the engine spawns one closure for each firing, of a job it holds;
\* the closure of a firing, when it runs, starts exactly one call of business
\* if the engine has a next tick for the id, and none if it has not (the job
\* was deregistered since the firing); a call of business starts in no other
\* way.  (The three executors of job.rs ignore the instant they are given;
\* the model does not carry it.)
C29_OneCallPerFiring ==
    /\ [][nfired' # nfired =>
            /\ nfired' = nfired + 1
            /\ \E u \in DOMAIN metadata : spawned' = spawned (+) SetToBag({u})
            /\ executing' = executing]_vars
    /\ [][\A u \in Uuids :
            CopiesIn(u, spawned') # CopiesIn(u, spawned) =>
                \/ nfired' = nfired + 1 /\ CopiesIn(u, spawned') = CopiesIn(u, spawned) + 1
                \/ /\ nfired' = nfired
                   /\ CopiesIn(u, spawned') = CopiesIn(u, spawned) - 1
                   /\ \A v \in Uuids \ {u} : CopiesIn(v, executing') = CopiesIn(v, executing)
                   /\ CopiesIn(u, executing') =
                        CopiesIn(u, executing) + (IF u \in DOMAIN metadata THEN 1 ELSE 0)]_vars
    /\ [][\A u \in Uuids :
            CopiesIn(u, executing') > CopiesIn(u, executing) =>
                CopiesIn(u, spawned') = CopiesIn(u, spawned) - 1]_vars

\* C29 witness: the closure of the one firing has run and its call of
\* business is in progress, no other closure waiting
C29_Witness ==
    /\ nfired = 1
    /\ spawned = EmptyBag
    /\ \E u \in Uuids : executing = SetToBag({u})

C31_FiringFailureSwallowed ==
    /\ [][swallowed' # swallowed =>
            /\ swallowed' = swallowed + 1
            /\ \E u \in Uuids : /\ BagIn(u, executing)
                                /\ executing' = executing (-) SetToBag({u})
            /\ UNCHANGED <<pPc, pRes, hPc, hRes, sPc, runRes, bound>>
            /\ UNCHANGED <<jobs, metadata, engine, nextUuid>>
            /\ UNCHANGED <<cmdChan, resChan, pCmd, pStop>>
            /\ ServiceState' = ServiceState]_vars
    /\ [](\A u \in Uuids :
            (swallowed > 0 /\ sPc = "running" /\ engine = "started" /\ u \in DOMAIN metadata)
                => ENABLED EngineFireUpTo(u, nfired + 1))
    /\ []((swallowed > 0 /\ sPc = "running" /\ hPc = "recv" /\ cmdChan # <<>>
                /\ Head(cmdChan) = new_stop_service)
                => ENABLED HandleCommand)

\* C31 witness: one job was fired twice and its script failed twice; the
\* service is Running, both tasks wait for the next request, and a second
\* job is registered
C31_Witness ==
    /\ swallowed = 2
    /\ nfired = 2
    /\ spawned = EmptyBag
    /\ executing = EmptyBag
    /\ Cardinality(DOMAIN jobs) = 2
    /\ DOMAIN metadata = DOMAIN jobs
    /\ \E u \in DOMAIN metadata :
         /\ metadata[u].last_tick # None
         /\ \A v \in DOMAIN metadata \ {u} : metadata[v].last_tick = None
    /\ ServiceState = "Running"
    /\ pPc = "recv"
    /\ hPc = "recv"

\* the variables of the service with the control loop and of its clients
firstService ==
    <<clientVars, ipcVars, bound, pPc, pStop, pCmd, pRes, hPc, hRes, cmdChan, resChan,
      handlerState, sPc, runRes, live, issued, given, engineVars>>

\* C32: two service processes never listen on the path at once.  The listen
\* of the process that comes second fails: its parser and its run return the
\* transport error, it was never dialable and has handled no request, and it
\* does not get the path later.  The start of the second process, failed or
\* not, changes nothing of the first: its jobs, its socket, its tasks and
\* its clients are as before, and a new client still reaches it.
C32_OneServicePerPath ==
    /\ [](~(bound /\ other = "bound"))
    /\ [][(other = "absent" /\ other' # other /\ bound) => other' = "failed"]_vars
    /\ [][other = "failed" => other' = "failed"]_vars
    /\ [][other' # other => UNCHANGED firstService]_vars
    /\ [][(pPc = "listen" /\ pPc' # pPc /\ other = "bound") =>
            /\ pPc' = "failed"
            /\ pRes' = Some(Err("transport"))
            /\ runRes' = Some(Err("transport"))
            /\ sPc' = "returned"
            /\ ~bound'
            /\ other' = "bound"]_vars
    /\ [][pRes' # pRes /\ pRes' = Some(Err("transport")) =>
            pPc = "listen" /\ other = "bound"]_vars
    /\ []((pPc = "failed" /\ pRes = Some(Err("transport"))) =>
            /\ nreq = 0
            /\ issued = {}
            /\ jobs = EmptyMap
            /\ cmdChan = <<>>
            /\ resChan = <<>>
            /\ \A c \in Clients : cpc[c] \notin {"ready", "waiting"} /\ crep[c] = None)
    /\ [](\A c \in Clients :
            (bound /\ cpc[c] = "new") => ENABLED (ClientNew(c) /\ cpc'[c] = "ready"))

\* C32 witness: the second process has failed at its listen; the first
\* listens, holds a job and has answered a client that is ready to ask again
C32_Witness ==
    /\ other = "failed"
    /\ bound
    /\ sPc = "running"
    /\ DOMAIN jobs # {}
    /\ \E c \in Clients : cpc[c] = "ready" /\ crep[c] # None

\* C33: the handler has returned success only with the parser returned
\* before it: while the parser is at its listen or in its loop, or has
\* failed, the handler has no Ok; the handler can take its exit only with the
\* parser returned, which dropped cmd_sender, and with the request channel
\* empty; so with the handler returned both tasks are done, the engine shut
\* down by the StopService that made the parser return.
C33_HandlerReturnsAfterParser ==
    /\ hRes = Some(Ok(Unit)) <=> hPc = "done"
    /\ pPc \in {"listen", "recv", "forward", "reply", "failed", "dropped"} =>
            hPc # "done" /\ hRes # Some(Ok(Unit))
    /\ ENABLED HandlerClosed => pPc = "done" /\ pRes = Some(Ok(Unit)) /\ cmdChan = <<>>
    /\ hPc = "done" =>
            /\ pPc = "done"
            /\ pRes = Some(Ok(Unit))
            /\ pStop
            /\ cmdChan = <<>>
            /\ engine = "shutdown"

\* C33 witness: after a StopService the parser has returned and then the
\* handler, run has not returned yet
C33_Witness ==
    /\ pPc = "done"
    /\ hPc = "done"
    /\ sPc = "running"
    /\ runRes = None

\* C34: the two channels of the control loop never hold more than one
\* message between them: each holds at most one, a command waits in the
\* request channel only while the parser waits for its response, a response
\* waits in the reply channel only while the parser is there to take it or is
\* gone, and with fewer than 1024 messages in each the send of the parser
\* and the send of the handler find room at once.
C34_OneRequestOutstanding ==
    /\ Len(cmdChan) <= 1
    /\ Len(resChan) <= 1
    /\ Len(cmdChan) + Len(resChan) <= 1
    /\ Len(cmdChan) < ChannelCapacity
    /\ Len(resChan) < ChannelCapacity
    /\ cmdChan # <<>> => pPc \in {"reply", "dropped"}
    /\ resChan # <<>> => pPc \in {"reply", "dropped"} /\ pCmd = None
    /\ (sPc = "running" /\ pPc = "forward") => cmdChan = <<>> /\ resChan = <<>> /\ ENABLED ParserForward
    /\ (sPc = "running" /\ hPc = "recv" /\ cmdChan # <<>>
            /\ Head(cmdChan) \in {new_list_jobs, new_stop_service}) => ENABLED HandleCommand

\* C34 witness: the response to the one request in the loop waits in the
\* reply channel while the request of another client waits at the endpoint
C34_Witness ==
    /\ Len(resChan) = 1
    /\ cmdChan = <<>>
    /\ pPc = "reply"
    /\ \E c \in Clients : ipcReq[c] # <<>> /\ c # repPipe

\* C35: from the receipt of a StopService on, the parser takes no frame from
\* the endpoint: stop_service stays set, the frames in flight to the listener
\* stay where they are, no command but that StopService goes to the handler,
\* the jobs and the ids given out stay as they are, and the one reply that
\* leaves the service is ServiceStopped to the client that asked for the stop.
C35_NothingReadAfterStop ==
    /\ [][pStop => pStop']_vars
    /\ [][pStop => \A c \in Clients : ipcReq[c] # <<>> => ipcReq'[c] = ipcReq[c]]_vars
    /\ [](pStop =>
            /\ pPc \notin {"listen", "recv"}
            /\ \A i \in 1..Len(cmdChan) : cmdChan[i] = new_stop_service
            /\ \A i \in 1..Len(resChan) : resChan[i] = ServiceStopped)
    /\ [][pStop => jobs' = jobs /\ issued' = issued /\ nextUuid' = nextUuid]_vars
    /\ [][pStop => \A c \in Clients :
            (ipcRep'[c] # ipcRep[c] /\ ipcRep'[c] # <<>>) =>
                /\ creq[c] = Some(new_stop_service)
                /\ ipcRep'[c] = ResponseToBytes(ServiceStopped)
                /\ pPc' = "done"]_vars

\* C35 witness: the service has stopped and returned; the client that asked
\* has its ServiceStopped, the request of another client is still in flight,
\* unread and unanswered
C35_Witness ==
    /\ pStop
    /\ pPc = "done"
    /\ sPc = "returned"
    /\ \E c, d \in Clients :
        /\ c # d
        /\ crep[c] = Some(Ok(ServiceStopped))
        /\ cpc[d] = "waiting"
        /\ ipcReq[d] # <<>>
        /\ ipcRep[d] = <<>>

\* C36: the path is bound only in a service whose constructor has created and
\* started the engine and whose run polls the tasks.  While the service is
\* Starting nothing is bound, no client has dialed, no frame is in flight,
\* both tasks are at their first step and the jobs map is empty.  A frame is
\* received, and an AddJob handled, with the engine started and not shut
\* down; the job the AddJob registers is an entry of that engine.
C36_BoundAfterEngineStarted ==
    /\ [](bound => sPc = "running" /\ engine \in {"started", "shutdown"})
    /\ [](ServiceState = "Starting" =>
            /\ ~bound
            /\ pPc = "listen"
            /\ hPc = "recv"
            /\ nreq = 0
            /\ cmdChan = <<>>
            /\ resChan = <<>>
            /\ jobs = EmptyMap
            /\ \A c \in Clients : cpc[c] \in {"new", "nodial"} /\ ipcReq[c] = <<>>)
    /\ [][(\E c \in Clients : ipcReq[c] # <<>> /\ ipcReq'[c] = <<>>) =>
            ServiceState = "Running" /\ engine = "started" /\ bound]_vars
    /\ [][Handles("AddJob") =>
            /\ ServiceState = "Running"
            /\ engine = "started"
            /\ engine' = "started"
            /\ DOMAIN jobs' \subseteq DOMAIN metadata']_vars

\* C36 witness: the handler of the bound service, its engine started, has
\* registered a job and its JobAdded waits in the reply channel
C36_Witness ==
    /\ bound
    /\ engine = "started"
    /\ Len(resChan) = 1
    /\ Head(resChan).tag = "JobAdded"
    /\ UuidParseStr(Head(resChan).id).val \in DOMAIN jobs \cap DOMAIN metadata

\* the process of c runs the delete of a client binary with an id text that
\* Uuid::parse_str rejects
MalformedDelete(c) == cli[c] # None /\ ~UuidParseStr(cli[c][1].id).ok

\* what the client binary of c has to print: main.rs turns the Err of its
\* dial into ServiceNotRunning, bin/cronus.rs returns every Err
CliOutcome(c) == IF cli[c][1].bin = "main" THEN CliResponse(c) ELSE crep[c]

\* the variables of the daemon and of the transport
daemonVars ==
    <<ipcVars, bound, pPc, pStop, pCmd, pRes, hPc, hRes, cmdChan, resChan, handlerState,
      sPc, runRes, nreq, live, issued, engineVars>>

\* a delete of a client binary with a malformed id text puts no frame in
\* flight, and no step of it changes the daemon, the transport or another
\* client
MalformedDeleteSendsNothing ==
    /\ [](\A c \in Clients : MalformedDelete(c) =>
            /\ ipcReq[c] = <<>>
            /\ ipcRep[c] = <<>>
            /\ creq[c] = None
            /\ cli[c][1].pc # "sent"
            /\ cpc[c] # "waiting")
    /\ [][\A c \in Clients : (MalformedDelete(c)' /\ cli'[c] # cli[c]) =>
            /\ UNCHANGED daemonVars
            /\ \A d \in Clients \ {c} :
                 cpc'[d] = cpc[d] /\ crep'[d] = crep[d] /\ cli'[d] = cli[d]]_vars

\* C37 as stated: a delete of the client binary with a malformed id text
\* sends no DeleteJob and leaves the daemon as it is, and the process ends
\* with an error of its own.
C37_MalformedIdLocalError ==
    /\ MalformedDeleteSendsNothing
    /\ [](\A c \in Clients : (MalformedDelete(c) /\ cli[c][1].pc = "exited") =>
            CliOutcome(c) # None /\ ~CliOutcome(c)[1].ok)

\* C37 amended: a delete of the client binary with a malformed id text sends
\* no DeleteJob and leaves the daemon as it is; the process ends with an
\* error of its own, but for the binary of main.rs when its dial has failed:
\* that one dials before it reads the id, and answers ServiceNotRunning.
C37_MalformedIdNeverSent ==
    /\ MalformedDeleteSendsNothing
    /\ [](\A c \in Clients : (MalformedDelete(c) /\ cli[c][1].pc = "exited") =>
            IF cli[c][1].bin = "main" /\ cpc[c] = "nodial"
            THEN CliOutcome(c) = Some(Ok(ServiceNotRunning))
            ELSE CliOutcome(c) # None /\ ~CliOutcome(c)[1].ok)
    /\ [](\A c \in Clients : (MalformedDelete(c) /\ cli[c][1].bin = "cronus") =>
            cli[c][1].pc = "exited" /\ cpc[c] = "exited")

\* C37 witness: the binary of main.rs has dialed the daemon, found the id
\* text malformed and ended with the error; the daemon is bound, holds a job
\* and both its tasks wait for the next request
C37_Witness ==
    /\ \E c \in Clients :
        /\ cli[c] = DeleteCli("main", "not-a-uuid", "exited")
        /\ cpc[c] = "exited"
        /\ crep[c] = Some(Err("badid"))
    /\ bound
    /\ DOMAIN jobs # {}
    /\ pPc = "recv"
    /\ hPc = "recv"

====
